---- MODULE Spec2Model ----
(***************************************************************************)
(* Model of app/streaming/session.cpp (moonlight-qt): the Session          *)
(* life cycle (Session::exec, DeferredSessionCleanupTask, ~Session), the   *)
(* protocol callbacks that run on the transport's threads                  *)
(* (clConnectionTerminated, clRumble, drSubmitDecodeUnit), the decoder     *)
(* hot swap of the event loop, and the stream configuration built by       *)
(* Session::initialize / Session::validateLaunch.                          *)
(***************************************************************************)
EXTENDS Integers, Sequences, FiniteSets, TLC

(* ------------------------------ bounds --------------------------------- *)
\* number of Session objects whose exec() calls may overlap
NumSessions == 2
\* capacity of the SDL event queue kept by the model
MaxEvents == 2
\* events queued at a time where every kind of event is delivered
MaxPending == 1
\* displayLaunchError emissions counted for the observed session
MaxErrors == 2

Sessions == 1..NumSessions
\* nullptr for s_ActiveSession
NoSession == 0

VARIABLES
    s_ActiveSessionSemaphore, \* QSemaphore: number of available tokens
    s_ActiveSession,          \* Session* : NoSession or a session
    connLive,                 \* sessions whose LiStartConnection succeeded and
                              \* whose LiStopConnection has not returned yet
    events,                   \* the SDL event queue (FIFO)
    videoRefs,                \* references the sessions hold on SDL's video subsystem
    windowDisplay,            \* SDL_GetWindowDisplayIndex(m_Window)
    pc,                       \* per session: position of the main thread in exec()
    task,                     \* per session: position of its DeferredSessionCleanupTask
    dtor,                     \* per session: position of ~Session
    shouldQuit,               \* per session: local of DeferredSessionCleanupTask::run
    m_UnexpectedTermination,
    quitAppAfter,             \* m_Preferences->quitAppAfter (the stored preference)
    m_InputHandler,           \* "null", "live", or "freed" (dangling pointer)
    m_InputHandlerLock,       \* SDL_SpinLock: 0 free, 1 taken
    m_VideoDecoder,           \* 0 (nullptr) or the id of a decoder object
    liveDecoders,             \* ids of the decoder objects that exist
    m_DecoderLock,            \* SDL_SpinLock: 0 free, 1 taken
    m_NeedsIdr,
    currentDisplayIndex,      \* local of exec()
    subPc,                    \* position of the thread running drSubmitDecodeUnit
    subDecoder,               \* its local `decoder`
    subRet,                   \* value the last drSubmitDecodeUnit returned
    rumPc,                    \* position of the thread running clRumble
    sig,                      \* how often the observed session emitted each Qt signal
                              \* and made each call of the host's HTTP interface
    hist,                     \* what the observed session has done (for the properties)
    fault,                    \* undefined behaviour that has occurred
    m_Preferences,            \* the StreamingPreferences read by initialize()
    m_Computer,               \* the host: gfeVersion, maxLumaPixelsHEVC,
                              \* serverCodecModeSupport, currentGameId
    m_App,                    \* the application: hdrSupported, id
    hwDecode,                 \* <<format, width>> pairs for which a test decoder
                              \* reports isHardwareAccelerated()
    audioDevice,              \* audio configurations for which testAudio() passes
    unmappedGamepads,         \* SdlInputHandler::getUnmappedGamepads() is not empty
    m_StreamConfig,           \* per session: its STREAM_CONFIGURATION
    m_AudioDisabled,          \* per session
    warnings,                 \* per session: the displayLaunchWarning texts, in order
    launchErrors,             \* per session: the displayLaunchError texts of validateLaunch
    entropy,                  \* what RAND_bytes returns, call after call
    randCalls,                \* how many RAND_bytes calls the process has made
    decoderLibraries,         \* the decoders compiled in, in the order chooseDecoder tries them
    probePc,                  \* where a probe of initialize() is: "idle", "new", "initialize", "chosen"
    probeFn,                  \* the probe running: isHardwareDecodeAvailable or getDecoderCapabilities
    probeDecoder,             \* its local `decoder`, chooseDecoder's chosenDecoder
    probeCandidate,           \* the library chooseDecoder is trying
    connectionWarnings,       \* m_Preferences->connectionWarnings
    bitrateKbps,              \* m_Preferences->bitrateKbps, copied to m_StreamConfig.bitrate
    m_MouseEmulationRefCount, \* per session
    overlayText,              \* per session: text of Overlay::OverlayStatusUpdate
    overlayEnabled,           \* per session: state of Overlay::OverlayStatusUpdate
    statPc,                   \* position of the thread running clConnectionStatusUpdate
    statStatus,               \* its argument connectionStatus
    negotiated,               \* the video stream the transport negotiates with the host
    m_ActiveVideo,             \* per session: m_ActiveVideoFormat, -Width, -Height, -FrameRate
    windowMode,               \* m_Preferences->windowMode
    windowFlags,              \* SDL_GetWindowFlags(m_Window), the full-screen bits
    m_PendingWindowedTransition, \* per session
    captureActive,            \* per session: the input handler holds the mouse
    keysPressed,              \* per session: the input handler has keys down on the host
    framePacing,              \* m_Preferences->framePacing
    displayHz                 \* StreamUtils::getDisplayRefreshRate(m_Window)

lifeVars == <<s_ActiveSessionSemaphore, s_ActiveSession, connLive, events, videoRefs,
              windowDisplay, pc, task, dtor, shouldQuit, m_UnexpectedTermination,
              quitAppAfter, m_InputHandler, m_InputHandlerLock, m_VideoDecoder,
              liveDecoders, m_DecoderLock, m_NeedsIdr, currentDisplayIndex,
              subPc, subDecoder, subRet, rumPc, sig, hist, fault>>

\* what a launch is given: preferences, host, application and the machine
inputVars == <<m_Preferences, m_Computer, m_App, hwDecode, audioDevice,
               unmappedGamepads, entropy>>
\* what initialize() derives
cfgVars == <<m_StreamConfig, m_AudioDisabled, warnings, launchErrors, randCalls>>
\* everything the life cycle after initialize() only reads
\* the test decoders of initialize()
probeVars == <<decoderLibraries, probePc, probeFn, probeDecoder, probeCandidate>>
\* the status overlay, shared by clConnectionStatusUpdate and
\* notifyMouseEmulationMode
overlayVars == <<connectionWarnings, bitrateKbps, m_MouseEmulationRefCount,
                 overlayText, overlayEnabled, statPc, statStatus>>
\* the video stream descriptor of drSetup
setupVars == <<negotiated, m_ActiveVideo>>
\* the window's mode and what the input handler holds
windowVars == <<windowMode, windowFlags, m_PendingWindowedTransition, captureActive, keysPressed,
                framePacing, displayHz>>
\* what the launch fixes, for the steps that change the window or the input state
fixedVars == <<quitAppAfter, overlayVars, setupVars, inputVars, cfgVars, probeVars, windowMode,
               framePacing, displayHz>>
launchVars == <<quitAppAfter, overlayVars, setupVars, inputVars, cfgVars, probeVars, overlayVars, setupVars,
                windowVars>>
vars == <<lifeVars, inputVars, cfgVars, probeVars, overlayVars, setupVars, windowVars>>

(* --------------------------- helper values ----------------------------- *)
\* decoder objects: addresses handed out by `new`
MaxDecoders == 2
DecoderIds == 1..MaxDecoders
NoDecoder == 0

EventTypes == {"QUIT", "WINDOW_SIZE_CHANGED", "WINDOW_FOCUS_LOST", "RENDER_DEVICE_RESET"}
Displays == {0, 1}
\* the kinds of SDL_WINDOWEVENT that exec() tells apart; WINDOW_MOVED stands
\* for every kind it does not name
WindowEvents == {"WINDOW_SIZE_CHANGED", "WINDOW_SHOWN", "WINDOW_FOCUS_LOST", "WINDOW_MOVED"}
ResetEvents == {"RENDER_DEVICE_RESET", "RENDER_TARGETS_RESET"}
WindowModes == {"WM_FULLSCREEN", "WM_FULLSCREEN_DESKTOP", "WM_WINDOWED"}
\* SDL_video.h: SDL_WINDOW_FULLSCREEN_DESKTOP is SDL_WINDOW_FULLSCREEN | 0x1000
SDL_WINDOW_FULLSCREEN == 1
SDL_WINDOW_FULLSCREEN_DESKTOP == 4097

\* a & b on naturals
RECURSIVE BitAnd(_, _)
BitAnd(a, b) ==
    IF a = 0 \/ b = 0 THEN 0
    ELSE 2 * BitAnd(a \div 2, b \div 2) + (a % 2) * (b % 2)

\* lines 444-453: the flag toggleFullscreen and exec() enter full screen with
m_FullScreenFlag ==
    IF windowMode = "WM_FULLSCREEN" THEN SDL_WINDOW_FULLSCREEN
    ELSE SDL_WINDOW_FULLSCREEN_DESKTOP

\* m_ActiveVideoFormat, -Width, -Height, -FrameRate before drSetup: the
\* constructor does not initialize them; nothing reads them before drSetup
UninitializedVideo == [format |-> "uninitialized", width |-> 0, height |-> 0, frameRate |-> 0]

\* texts of the status overlay
NoOverlayText == ""
SlowConnectionText == "Slow connection to PC\nReduce your bitrate"
PoorConnectionText == "Poor connection to PC"
MouseModeText == "Gamepad mouse mode active\nLong press Start to deactivate"
\* connectionStatus values of the transport
ConnectionStatuses == {"CONN_STATUS_OKAY", "CONN_STATUS_POOR"}
\* gamepads that can be in mouse-emulation mode at once
MaxGamepads == 2

NoSignals == [sessionFinished |-> 0, quitStarting |-> 0, quitApp |-> 0,
              displayLaunchError |-> 0, stageFailed |-> 0, connectionStarted |-> 0,
              resumeApp |-> 0, launchApp |-> 0]
\* what a drSubmitDecodeUnit call returned and on which branch
NoReturn == [value |-> "none", branch |-> "none"]
NoHistory == [acquired |-> FALSE, scheduled |-> 0, started |-> FALSE,
              termNonZero |-> FALSE, looped |-> FALSE, exit |-> "none",
              idr |-> "none", probed |-> FALSE, termZero |-> FALSE,
              window |-> FALSE, decoder |-> FALSE,
              setup |-> UninitializedVideo, chosenWith |-> UninitializedVideo,
              event |-> "none", enableVsync |-> "none", enableFramePacing |-> "none"]

\* The signals and the history are recorded for one session, the observed
\* one; the sessions run the same code, so it stands for any of them.
Observed == CHOOSE s \in Sessions : \A u \in Sessions : s <= u
EmitIn(sg, s, name) == IF s = Observed THEN [sg EXCEPT ![name] = @ + 1] ELSE sg
Emit(s, name) == EmitIn(sig, s, name)
Note(s, name, v) == IF s = Observed THEN [hist EXCEPT ![name] = v] ELSE hist
\* lines 1193-1195: the video format, width, height and frame rate handed
\* to chooseDecoder
ChosenWith(h, s, video) == IF s = Observed THEN [h EXCEPT !.chosenWith = video] ELSE h
\* lines 1196-1197: the V-sync and frame pacing arguments of that call
PacedWith(h, s, vsync, pacing) ==
    IF s = Observed THEN [h EXCEPT !.enableVsync = vsync, !.enableFramePacing = pacing] ELSE h
Goto(s, label) == pc' = [pc EXCEPT ![s] = label]

\* SDL_QuitSubSystem(SDL_INIT_VIDEO) drops one reference on the event
\* subsystem: the queue is emptied when it was the last one, kept otherwise.
AfterQuitSubSystem(q) == {q, <<>>}
\* SDL_QuitSubSystem(SDL_INIT_VIDEO): the session gives its reference back
SDL_QuitSubSystem ==
    /\ videoRefs' = videoRefs - 1
    /\ events' \in AfterQuitSubSystem(events)

\* (mutant) a flush that empties the queue
FlushEvent_all(q, type) == <<>>

\* SDL_FlushEvent(type)
FlushEvent(q, type) == SelectSeq(q, LAMBDA e : e # type)

\* SDL_FlushEvent(SDL_WINDOWEVENT): window events of every kind
FlushWindowEvents(q) ==
    FlushEvent(FlushEvent(FlushEvent(FlushEvent(q, "WINDOW_SIZE_CHANGED"), "WINDOW_SHOWN"),
                          "WINDOW_FOCUS_LOST"), "WINDOW_MOVED")

(* ------------------------- launch parameters --------------------------- *)
VideoCodecConfigs == {"VCC_AUTO", "VCC_FORCE_H264", "VCC_FORCE_HEVC", "VCC_FORCE_HEVC_HDR"}
VideoDecoderSelections == {"VDS_AUTO", "VDS_FORCE_HARDWARE", "VDS_FORCE_SOFTWARE"}
VideoFormats == {"VIDEO_FORMAT_H264", "VIDEO_FORMAT_H265", "VIDEO_FORMAT_H265_MAIN10"}
AudioConfigurations == {"AUDIO_CONFIGURATION_STEREO", "AUDIO_CONFIGURATION_51_SURROUND"}
\* stream widths the preferences offer, and the height that goes with each
Widths == {1920, 3840}
HeightOf(width) == IF width = 3840 THEN 2160 ELSE 1080
\* a video stream descriptor: the arguments of drSetup
VideoDescriptor(format, width, frameRate) ==
    [format |-> format, width |-> width, height |-> HeightOf(width),
     frameRate |-> frameRate]
\* the streams a host may negotiate
VideoDescriptors ==
    {VideoDescriptor("VIDEO_FORMAT_H264", 1920, 60),
     VideoDescriptor("VIDEO_FORMAT_H265", 3840, 60),
     VideoDescriptor("VIDEO_FORMAT_H264", 1920, 120)}
\* GFE version strings: none, a 2.x, a 3.x and a 20.x one
GfeVersions == {<<>>, <<"2", ".", "1", "1">>, <<"3", ".", "2", "0">>,
                <<"2", "0", ".", "1">>}
\* serverCodecModeSupport masks: nothing, only the 0x200 bit, all of the low
\* ten bits, and every bit up to 0x400 but 0x200
CodecModeMasks == {0, 512, 1023, 1535}

\* the preferences that do not concern the video codec: frame rate, V-sync,
\* audio layout
QuietPreferences ==
    [fps |-> 60, unsupportedFps |-> FALSE, enableVsync |-> TRUE,
     audioConfig |-> "AC_STEREO"]
NoisyPreferences ==
    [fps |-> 120, unsupportedFps |-> TRUE, enableVsync |-> TRUE,
     audioConfig |-> "AC_51_SURROUND"]
OtherPreferences ==
    [fps : {60, 120}, unsupportedFps : BOOLEAN, enableVsync : BOOLEAN,
     audioConfig : {"AC_STEREO", "AC_51_SURROUND"}]
VideoPreferences(vcc, vds, width, other) ==
    [videoCodecConfig |-> vcc, videoDecoderSelection |-> vds,
     width |-> width, height |-> HeightOf(width),
     fps |-> other.fps, unsupportedFps |-> other.unsupportedFps,
     enableVsync |-> other.enableVsync, audioConfig |-> other.audioConfig]
\* a host with a current GFE and a GPU that encodes everything, running no game
ModernHost ==
    [gfeVersion |-> <<"3", ".", "2", "0">>, maxLumaPixelsHEVC |-> 1,
     serverCodecModeSupport |-> 1023, currentGameId |-> 0]
\* what the machine can decode in hardware when the stream is `width` wide:
\* any set of formats at each size it may be asked about (the requested one
\* and the 1920 fallback), a format decodable at 3840 being decodable at 1920
HwDecodeChoices(width) ==
    {hw \in SUBSET (VideoFormats \X Widths) :
        /\ \A f \in VideoFormats : <<f, 3840>> \in hw => <<f, 1920>> \in hw
        /\ width = 1920 => \A f \in VideoFormats : <<f, 3840>> \notin hw}

\* m_StreamConfig before initialize() fills it
NoStreamConfig ==
    [width |-> 0, height |-> 0, fps |-> 0, supportsHevc |-> FALSE,
     enableHdr |-> FALSE, audioConfiguration |-> "none",
     hevcBitratePercentageMultiplier |-> 0, packetSize |-> 0,
     remoteInputAesKey |-> 0, remoteInputAesIv |-> <<0, 0>>]
\* RAND_bytes is called twice by each initialize()
MaxRandCalls == 2 * NumSessions
\* the values a RAND_bytes call may deliver
RandomValues == {0, 1}
\* a generator that delivers the same value at every call
ConstantEntropy == [i \in 1..MaxRandCalls |-> 0]

(* state after construction: Session::Session, the static members *)
Constructed ==
    /\ s_ActiveSessionSemaphore = 1
    /\ s_ActiveSession = NoSession
    /\ connLive = {}
    /\ events = <<>>
    /\ videoRefs = 0
    /\ windowDisplay = 0
    /\ pc = [s \in Sessions |-> "idle"]
    /\ task = [s \in Sessions |-> "none"]
    /\ dtor = [s \in Sessions |-> "alive"]
    /\ shouldQuit = [s \in Sessions |-> FALSE]
    /\ m_UnexpectedTermination = [s \in Sessions |-> TRUE]
    /\ m_InputHandler = [s \in Sessions |-> "null"]
    /\ m_InputHandlerLock = [s \in Sessions |-> 0]
    /\ m_VideoDecoder = [s \in Sessions |-> NoDecoder]
    /\ liveDecoders = {}
    /\ m_DecoderLock = [s \in Sessions |-> 0]
    /\ m_NeedsIdr = [s \in Sessions |-> FALSE]
    /\ currentDisplayIndex = 0
    /\ subPc = "idle"
    /\ subDecoder = NoDecoder
    /\ subRet = NoReturn
    /\ rumPc = "idle"
    /\ sig = NoSignals
    /\ hist = NoHistory
    /\ fault = {}
    /\ m_StreamConfig = [s \in Sessions |-> NoStreamConfig]
    /\ m_AudioDisabled = [s \in Sessions |-> FALSE]
    /\ warnings = [s \in Sessions |-> <<>>]
    /\ launchErrors = [s \in Sessions |-> <<>>]
    /\ randCalls = 0
    /\ probePc = "idle"
    /\ probeFn = "none"
    /\ probeDecoder = NoDecoder
    /\ probeCandidate = 1
    /\ m_MouseEmulationRefCount = [s \in Sessions |-> 0]
    /\ overlayText = [s \in Sessions |-> NoOverlayText]
    /\ overlayEnabled = [s \in Sessions |-> FALSE]
    /\ statPc = "idle"
    /\ statStatus = "none"
    /\ m_ActiveVideo = [s \in Sessions |-> UninitializedVideo]
    /\ windowFlags = 0
    /\ m_PendingWindowedTransition = [s \in Sessions |-> FALSE]
    /\ captureActive = [s \in Sessions |-> FALSE]
    /\ keysPressed = [s \in Sessions |-> FALSE]

\* a windowed stream with frame pacing on a 60 Hz display
OrdinaryWindow ==
    /\ windowMode = "WM_WINDOWED"
    /\ framePacing = TRUE
    /\ displayHz = 60

\* an ordinary launch as far as the status overlay and the negotiated
\* stream go: warnings on, 10 Mbps, 1080p60 H.264
OrdinaryStream ==
    /\ connectionWarnings = TRUE
    /\ bitrateKbps = 10000
    /\ negotiated = VideoDescriptor("VIDEO_FORMAT_H264", 1920, 60)
    /\ OrdinaryWindow

\* the life-cycle specifications start every session from one ordinary launch
LifeInit ==
    /\ Constructed
    /\ OrdinaryStream
    /\ quitAppAfter \in BOOLEAN
    /\ m_Preferences = VideoPreferences("VCC_AUTO", "VDS_AUTO", 1920, QuietPreferences)
    /\ m_Computer = ModernHost
    /\ m_App = [hdrSupported |-> TRUE, id |-> 1]
    /\ hwDecode = VideoFormats \X {1920}
    /\ audioDevice = AudioConfigurations
    /\ unmappedGamepads = FALSE
    /\ entropy = ConstantEntropy
    /\ decoderLibraries = <<"FFmpeg">>

globVars == <<s_ActiveSessionSemaphore, s_ActiveSession, connLive>>
envVars == <<events, videoRefs, windowDisplay, currentDisplayIndex>>
taskVars == <<task, shouldQuit>>
inVars == <<m_InputHandler, m_InputHandlerLock>>
decVars == <<m_VideoDecoder, liveDecoders, m_DecoderLock, m_NeedsIdr>>
cbVars == <<subPc, subDecoder, subRet, rumPc>>

(* ------------------------- Session::exec ------------------------------- *)
\* QThreadPool::globalInstance()->start(new DeferredSessionCleanupTask(this))
StartCleanupTask(s, path) ==
    /\ task' = [task EXCEPT ![s] = "queued"]
    /\ hist' = IF s = Observed
               THEN [hist EXCEPT !.scheduled = @ + 1, !.exit = path]
               ELSE hist

\* (mutant) an initialize() whose failures after SDL_InitSubSystem keep the
\* reference
InitVideoFor_keeping(outcome) ==
    CASE outcome = "sdl_fail" -> UNCHANGED <<videoRefs, events>>
      [] OTHER -> videoRefs' = videoRefs + 1 /\ UNCHANGED events

\* initialize() and the video subsystem: SDL_InitSubSystem at line 322 takes
\* a reference unless it fails; the failures after it give it back with
\* SDL_QuitSubSystem (lines 335 and 462)
InitVideoFor(outcome) ==
    CASE outcome = "ok" -> videoRefs' = videoRefs + 1 /\ UNCHANGED events
      [] outcome = "sdl_fail" -> UNCHANGED <<videoRefs, events>>
      [] OTHER -> /\ videoRefs' = (videoRefs + 1) - 1
                  /\ events' \in AfterQuitSubSystem(events)

\* exec() lines 845-854: initialize() and its failure exit.  outcome is what
\* initialize() met: "ok", SDL_InitSubSystem failing, the test window
\* failing, or validateLaunch() returning false (which emits the error).
exec_initialize(s) ==
    /\ pc[s] = "idle" /\ dtor[s] = "alive"
    /\ \E outcome \in {"ok", "sdl_fail", "window_fail", "validate_fail"} :
        /\ InitVideoFor(outcome)
        /\ IF outcome = "ok"
           THEN /\ Goto(s, "wait")
                /\ UNCHANGED <<sig, hist>>
           ELSE /\ Goto(s, "returned")
                /\ hist' = Note(s, "exit", outcome)
                /\ sig' = IF outcome = "validate_fail"
                          THEN EmitIn(Emit(s, "displayLaunchError"), s, "sessionFinished")
                          ELSE Emit(s, "sessionFinished")
    /\ UNCHANGED <<globVars, windowDisplay, currentDisplayIndex, taskVars, inVars,
                   decVars, cbVars, dtor, m_UnexpectedTermination, launchVars, fault>>

\* (mutant) exec() goes on without waiting for a token
exec_acquire_noWait(s) ==
    /\ pc[s] = "wait"
    /\ s_ActiveSessionSemaphore' = s_ActiveSessionSemaphore - 1
    /\ hist' = Note(s, "acquired", TRUE)
    /\ Goto(s, "active")
    /\ UNCHANGED <<s_ActiveSession, connLive, envVars, taskVars, inVars, decVars,
                   cbVars, dtor, m_UnexpectedTermination, launchVars, sig, fault>>

\* s_ActiveSessionSemaphore.acquire(), line 866
exec_acquire(s) ==
    /\ pc[s] = "wait"
    /\ s_ActiveSessionSemaphore > 0
    /\ s_ActiveSessionSemaphore' = s_ActiveSessionSemaphore - 1
    /\ hist' = Note(s, "acquired", TRUE)
    /\ Goto(s, "active")
    /\ UNCHANGED <<s_ActiveSession, connLive, envVars, taskVars, inVars, decVars,
                   cbVars, dtor, m_UnexpectedTermination, launchVars,
                   sig, fault>>

\* lines 869-895: s_ActiveSession = this; m_InputHandler = new SdlInputHandler
exec_setActive(s) ==
    /\ pc[s] = "active"
    /\ s_ActiveSession' = s
    /\ m_InputHandler' = [m_InputHandler EXCEPT ![s] = "live"]
    /\ Goto(s, "launch")
    /\ UNCHANGED <<s_ActiveSessionSemaphore, connLive, envVars, taskVars,
                   m_InputHandlerLock, decVars, cbVars, dtor,
                   m_UnexpectedTermination, launchVars, sig, hist, fault>>

\* (mutant) a failing launch that returns without starting the cleanup task
exec_launch_noTask(s) ==
    /\ pc[s] = "launch"
    /\ \E outcome \in {"ok", "GfeHttpResponseException", "QtNetworkReplyException"} :
        LET called == Emit(s, IF m_Computer.currentGameId # 0
                              THEN "resumeApp" ELSE "launchApp") IN
        IF outcome = "ok"
        THEN /\ Goto(s, "connect")
             /\ sig' = called
             /\ UNCHANGED <<m_InputHandler, events, videoRefs, task, hist>>
        ELSE /\ m_InputHandler' = [m_InputHandler EXCEPT ![s] = "null"]
             /\ SDL_QuitSubSystem
             /\ sig' = EmitIn(called, s, "displayLaunchError")
             /\ hist' = Note(s, "exit", "launch")
             /\ Goto(s, "returned")
             /\ UNCHANGED task
    /\ UNCHANGED <<globVars, windowDisplay, currentDisplayIndex, shouldQuit,
                   m_InputHandlerLock, decVars, cbVars, dtor,
                   m_UnexpectedTermination, launchVars, fault>>

\* lines 897-922: resumeApp when the host reports a running game, launchApp
\* otherwise; either exception deletes the input handler, quits the video
\* subsystem, shows the error and starts the task
exec_launch(s) ==
    /\ pc[s] = "launch"
    /\ \E outcome \in {"ok", "GfeHttpResponseException", "QtNetworkReplyException"} :
        LET called == Emit(s, IF m_Computer.currentGameId # 0
                              THEN "resumeApp" ELSE "launchApp") IN
        IF outcome = "ok"
        THEN /\ Goto(s, "connect")
             /\ sig' = called
             /\ UNCHANGED <<m_InputHandler, events, videoRefs, task, hist>>
        ELSE /\ m_InputHandler' = [m_InputHandler EXCEPT ![s] = "null"]
             /\ SDL_QuitSubSystem
             /\ sig' = EmitIn(called, s, "displayLaunchError")
             /\ StartCleanupTask(s, "launch")
             /\ Goto(s, "returned")
    /\ UNCHANGED <<globVars, windowDisplay, currentDisplayIndex, shouldQuit,
                   m_InputHandlerLock, decVars, cbVars, dtor,
                   m_UnexpectedTermination, launchVars, fault>>

\* line 940: LiStartConnection is entered
exec_LiStartConnection(s) ==
    /\ pc[s] = "connect"
    /\ Goto(s, "connecting")
    /\ UNCHANGED <<globVars, envVars, taskVars, inVars, decVars, cbVars, dtor,
                   m_UnexpectedTermination, launchVars, sig, hist, fault>>

\* lines 940-956: LiStartConnection returns.  err != 0: clStageFailed has
\* run on this thread, the handler is deleted and the task started.
\* err = 0: the video stream was set up, the connection is live,
\* connectionStarted is emitted.
exec_LiStartConnection_return(s) ==
    /\ pc[s] = "connecting"
    /\ \E err \in {0, -1} :
        IF err = 0
        THEN /\ m_ActiveVideo[s] # UninitializedVideo
             /\ connLive' = connLive \cup {s}
             /\ sig' = Emit(s, "connectionStarted")
             /\ hist' = Note(s, "started", TRUE)
             /\ Goto(s, "window")
             /\ UNCHANGED <<m_InputHandler, events, videoRefs, task>>
        ELSE /\ sig' = Emit(s, "stageFailed")
             /\ m_InputHandler' = [m_InputHandler EXCEPT ![s] = "null"]
             /\ SDL_QuitSubSystem
             /\ StartCleanupTask(s, "connect")
             /\ Goto(s, "returned")
             /\ UNCHANGED connLive
    /\ UNCHANGED <<s_ActiveSessionSemaphore, s_ActiveSession, windowDisplay,
                   currentDisplayIndex, shouldQuit, m_InputHandlerLock, decVars,
                   cbVars, dtor, m_UnexpectedTermination, launchVars, fault>>

\* lines 958-1048: SDL_CreateWindow; on success the window is set up and
\* currentDisplayIndex recorded
exec_createWindow(s) ==
    /\ pc[s] = "window"
    /\ \E created \in BOOLEAN :
        IF created
        THEN /\ currentDisplayIndex' = windowDisplay
             \* lines 1002-1020: full screen unless the preference is windowed
             /\ windowFlags' = IF windowMode = "WM_WINDOWED" THEN 0 ELSE m_FullScreenFlag
             \* lines 1022-1033 (release build, not Wayland)
             /\ captureActive' = [captureActive EXCEPT ![s] = windowMode # "WM_WINDOWED"]
             /\ hist' = Note(s, "window", TRUE)
             /\ Goto(s, "preloop")
        ELSE /\ Goto(s, "wf_delete")
             /\ UNCHANGED <<currentDisplayIndex, hist, windowFlags, captureActive>>
    /\ UNCHANGED <<globVars, events, videoRefs, windowDisplay, taskVars, inVars, decVars,
                   cbVars, dtor, m_UnexpectedTermination, fixedVars,
                   m_PendingWindowedTransition, keysPressed, sig, fault>>

\* line 971: delete m_InputHandler (m_InputHandlerLock is not taken here)
exec_windowFailed_delete(s) ==
    /\ pc[s] = "wf_delete"
    /\ m_InputHandler' = [m_InputHandler EXCEPT ![s] = "freed"]
    /\ Goto(s, "wf_null")
    /\ UNCHANGED <<globVars, envVars, taskVars, m_InputHandlerLock, decVars, cbVars,
                   dtor, m_UnexpectedTermination, launchVars, sig,
                   hist, fault>>

\* line 972: m_InputHandler = nullptr
exec_windowFailed_null(s) ==
    /\ pc[s] = "wf_null"
    /\ m_InputHandler' = [m_InputHandler EXCEPT ![s] = "null"]
    /\ Goto(s, "wf_task")
    /\ UNCHANGED <<globVars, envVars, taskVars, m_InputHandlerLock, decVars, cbVars,
                   dtor, m_UnexpectedTermination, launchVars, sig,
                   hist, fault>>

\* (mutant) the window-failure exit returns without starting the cleanup task
exec_windowFailed_noTask(s) ==
    /\ pc[s] = "wf_task"
    /\ SDL_QuitSubSystem
    /\ Goto(s, "returned")
    /\ UNCHANGED <<globVars, windowDisplay, currentDisplayIndex, taskVars, inVars,
                   decVars, cbVars, dtor, m_UnexpectedTermination, launchVars,
                   sig, hist, fault>>

\* lines 973-975
exec_windowFailed_task(s) ==
    /\ pc[s] = "wf_task"
    /\ SDL_QuitSubSystem
    /\ StartCleanupTask(s, "window")
    /\ Goto(s, "returned")
    /\ UNCHANGED <<globVars, windowDisplay, currentDisplayIndex, shouldQuit, inVars,
                   decVars, cbVars, dtor, m_UnexpectedTermination, launchVars, sig, fault>>

\* line 1053: m_UnexpectedTermination = false
exec_clearUnexpected(s) ==
    /\ pc[s] = "preloop"
    /\ m_UnexpectedTermination' = [m_UnexpectedTermination EXCEPT ![s] = FALSE]
    /\ hist' = Note(s, "looped", TRUE)
    /\ Goto(s, "loop")
    /\ UNCHANGED <<globVars, envVars, taskVars, inVars, decVars, cbVars, dtor,
                   launchVars, sig, fault>>

(* ---------------------- the event loop of exec -------------------------- *)
\* a use of m_InputHandler-> by the main thread
DerefHandler(s, who) ==
    IF m_InputHandler[s] = "live" THEN fault ELSE fault \cup {who}

\* a use of m_VideoDecoder-> by the main thread
DerefDecoder(s, who) ==
    IF m_VideoDecoder[s] \in liveDecoders THEN fault ELSE fault \cup {who}

\* lines 810-825: Session::toggleFullscreen, called by the input handler
\* when a key event completes its full-screen shortcut
toggleFullscreen(s) ==
    LET fullScreen == BitAnd(windowFlags, m_FullScreenFlag) = 0 IN
    IF fullScreen
    THEN /\ windowFlags' = m_FullScreenFlag
         /\ UNCHANGED m_PendingWindowedTransition
    ELSE /\ windowFlags' = 0
         /\ m_PendingWindowedTransition' = [m_PendingWindowedTransition EXCEPT ![s] = TRUE]

\* line 1119: SDL_GetWindowFlags(m_Window) & SDL_WINDOW_FULLSCREEN
IsFullscreen == BitAnd(windowFlags, SDL_WINDOW_FULLSCREEN) # 0

\* (mutant) a loop that never compares the window's display
RecreatesDecoder_ignoringDisplay(e) ==
    e = "WINDOW_SIZE_CHANGED" \/ e = "WINDOW_SHOWN"

\* lines 1131-1138: a window event goes on to the decoder swap
RecreatesDecoder(e) ==
    IF e # "WINDOW_SIZE_CHANGED" /\ e # "WINDOW_SHOWN"
    THEN windowDisplay # currentDisplayIndex
    ELSE TRUE

\* lines 1066-1248: SDL_PollEvent returned an event; dispatch on its type.
exec_pollEvent(s) ==
    /\ pc[s] = "loop"
    /\ events # <<>>
    /\ events' = Tail(events)
    /\ hist' = Note(s, "event", Head(events))
    /\ LET e == Head(events) IN
        CASE e = "QUIT" ->
                /\ Goto(s, "cleanup")
                /\ UNCHANGED <<fault, windowFlags, m_PendingWindowedTransition,
                               captureActive, keysPressed>>
          [] e \in WindowEvents ->
                \* lines 1114-1126: setCaptureActive(false) unless full-screen,
                \* raiseAllKeys()
                /\ IF e = "WINDOW_FOCUS_LOST"
                   THEN /\ fault' = DerefHandler(s, "exec")
                        /\ captureActive' = IF IsFullscreen THEN captureActive
                                            ELSE [captureActive EXCEPT ![s] = FALSE]
                        /\ keysPressed' = [keysPressed EXCEPT ![s] = FALSE]
                   ELSE UNCHANGED <<fault, captureActive, keysPressed>>
                \* lines 1131-1154
                /\ IF RecreatesDecoder(e)
                   THEN /\ m_PendingWindowedTransition' =
                              [m_PendingWindowedTransition EXCEPT ![s] = FALSE]
                        /\ Goto(s, "swap_lock")
                   ELSE /\ Goto(s, "loop")
                        /\ UNCHANGED m_PendingWindowedTransition
                /\ UNCHANGED windowFlags
          [] e \in ResetEvents ->
                /\ Goto(s, "swap_lock")
                /\ UNCHANGED <<fault, windowFlags, m_PendingWindowedTransition,
                               captureActive, keysPressed>>
          [] e = "FRAME_READY" ->
                \* lines 1083-1086: m_VideoDecoder->renderFrameOnMainThread()
                /\ fault' = DerefDecoder(s, "renderFrameOnMainThread")
                /\ Goto(s, "loop")
                /\ UNCHANGED <<windowFlags, m_PendingWindowedTransition,
                               captureActive, keysPressed>>
          [] e = "KEYDOWN" ->
                \* lines 1214-1217: handleKeyEvent; the handler holds the key
                \* down on the host or, on its shortcut, toggles full screen
                /\ fault' = DerefHandler(s, "exec")
                /\ \E shortcut \in BOOLEAN :
                      IF shortcut
                      THEN /\ toggleFullscreen(s)
                           /\ UNCHANGED keysPressed
                      ELSE /\ keysPressed' = [keysPressed EXCEPT ![s] = TRUE]
                           /\ UNCHANGED <<windowFlags, m_PendingWindowedTransition>>
                /\ Goto(s, "loop")
                /\ UNCHANGED captureActive
    /\ UNCHANGED <<globVars, videoRefs, windowDisplay, currentDisplayIndex, taskVars, inVars,
                   decVars, cbVars, dtor, m_UnexpectedTermination, fixedVars, sig>>

\* SDL_AtomicLock: spins until the lock word is 0, then sets it
SDL_AtomicLock(lock, s) ==
    /\ lock[s] = 0
    /\ lock' = [lock EXCEPT ![s] = 1]

SDL_AtomicUnlock(lock, s) == lock' = [lock EXCEPT ![s] = 0]

\* line 1158
exec_swap_lock(s) ==
    /\ pc[s] = "swap_lock"
    /\ SDL_AtomicLock(m_DecoderLock, s)
    /\ Goto(s, "swap_delete")
    /\ UNCHANGED <<globVars, envVars, taskVars, inVars, m_VideoDecoder, liveDecoders,
                   m_NeedsIdr, cbVars, dtor, m_UnexpectedTermination, launchVars, sig, hist, fault>>

\* `delete decoder`: on a pointer that is neither null nor that of a live
\* object it destroys an object a second time
DeleteDecoder(decoder) ==
    /\ liveDecoders' = liveDecoders \ {decoder}
    /\ fault' = IF decoder = NoDecoder \/ decoder \in liveDecoders
                THEN fault ELSE fault \cup {"double delete"}

\* history: the decoder last created is destroyed, with the IDR request it
\* called for answered ("served") or still owed
DecoderGone(s) ==
    CASE hist.idr = "served" -> Note(s, "idr", "none")
      [] hist.idr = "pending" -> Note(s, "idr", "owed")
      [] OTHER -> hist

\* line 1161: delete m_VideoDecoder (the pointer keeps its value)
exec_swap_delete(s) ==
    /\ pc[s] = "swap_delete"
    /\ DeleteDecoder(m_VideoDecoder[s])
    /\ hist' = DecoderGone(s)
    /\ Goto(s, "swap_flush")
    /\ UNCHANGED <<globVars, envVars, taskVars, inVars, m_VideoDecoder, m_DecoderLock,
                   m_NeedsIdr, cbVars, dtor, m_UnexpectedTermination, launchVars, sig>>

\* lines 1163-1177: flush pending window events, record the display index,
\* flush pending device-reset events
exec_swap_flush(s) ==
    /\ pc[s] = "swap_flush"
    /\ events' = FlushEvent(FlushEvent(FlushWindowEvents(events), "RENDER_DEVICE_RESET"),
                            "RENDER_TARGETS_RESET")
    /\ currentDisplayIndex' = windowDisplay
    /\ Goto(s, "swap_choose")
    /\ UNCHANGED <<globVars, videoRefs, windowDisplay, taskVars, inVars, decVars, cbVars, dtor,
                   m_UnexpectedTermination, launchVars, sig, hist, fault>>

\* the address `new` returns: one that no existing object and no pointer
\* still held by the submitting thread has
NewDecoder == CHOOSE d \in DecoderIds :
                 /\ d \notin liveDecoders \cup {subDecoder}
                 /\ \A e \in DecoderIds :
                       e \notin liveDecoders \cup {subDecoder} => d <= e

\* (mutant) a chooseDecoder that deletes the candidates that failed and
\* leaves the caller's pointer as it was
chooseDecoder_dangling(s, initialized) ==
    IF initialized
    THEN /\ m_VideoDecoder' = [m_VideoDecoder EXCEPT ![s_ActiveSession] = NewDecoder]
         /\ liveDecoders' = liveDecoders \cup {NewDecoder}
    ELSE UNCHANGED <<m_VideoDecoder, liveDecoders>>

\* chooseDecoder, lines 143-198, as called at 1193-1199 with
\* s_ActiveSession->m_VideoDecoder for chosenDecoder: on success the pointer
\* is the initialized decoder, on failure every candidate was deleted and
\* the pointer is nullptr.
chooseDecoder(s, initialized) ==
    IF initialized
    THEN /\ m_VideoDecoder' = [m_VideoDecoder EXCEPT ![s_ActiveSession] = NewDecoder]
         /\ liveDecoders' = liveDecoders \cup {NewDecoder}
    ELSE /\ m_VideoDecoder' = [m_VideoDecoder EXCEPT ![s_ActiveSession] = NoDecoder]
         /\ UNCHANGED liveDecoders

\* (mutant) V-sync forced off already when the display is exactly 5 Hz short
SwapVsync_noSlack(s) ==
    IF displayHz + 5 <= m_StreamConfig[s].fps THEN FALSE
    ELSE m_Preferences.enableVsync

\* lines 1183-1189: the local enableVsync of the swap
SwapVsync(s) ==
    IF displayHz + 5 < m_StreamConfig[s].fps THEN FALSE
    ELSE m_Preferences.enableVsync

\* line 1197: enableVsync && m_Preferences->framePacing
SwapFramePacing(s) == SwapVsync(s) /\ framePacing

\* (mutant) a swap that leaves the loop on failure with the lock still held
exec_swap_choose_holdingLock(s) ==
    /\ pc[s] = "swap_choose"
    /\ s_ActiveSession \in Sessions
    /\ \E initialized \in BOOLEAN :
        /\ chooseDecoder(s, initialized)
        /\ IF initialized
           THEN /\ Goto(s, "swap_idr")
                /\ hist' = PacedWith(ChosenWith(Note(s, "decoder", TRUE), s, m_ActiveVideo[s]),
                                  s, SwapVsync(s), SwapFramePacing(s))
                /\ UNCHANGED <<m_DecoderLock, sig>>
           ELSE /\ UNCHANGED m_DecoderLock
                /\ sig' = Emit(s, "displayLaunchError")
                /\ hist' = PacedWith(ChosenWith(Note(s, "exit", "swap"), s, m_ActiveVideo[s]),
                                  s, SwapVsync(s), SwapFramePacing(s))
                /\ Goto(s, "cleanup")
    /\ UNCHANGED <<globVars, envVars, taskVars, inVars, m_NeedsIdr, cbVars, dtor,
                   m_UnexpectedTermination, launchVars, fault>>

\* lines 1179-1205: choose the replacement; on failure unlock and leave the loop
exec_swap_choose(s) ==
    /\ pc[s] = "swap_choose"
    /\ s_ActiveSession \in Sessions
    /\ \E initialized \in BOOLEAN :
        /\ chooseDecoder(s, initialized)
        /\ IF initialized
           THEN /\ Goto(s, "swap_idr")
                /\ hist' = PacedWith(ChosenWith(Note(s, "decoder", TRUE), s, m_ActiveVideo[s]),
                                  s, SwapVsync(s), SwapFramePacing(s))
                /\ UNCHANGED <<m_DecoderLock, sig>>
           ELSE /\ SDL_AtomicUnlock(m_DecoderLock, s)
                /\ sig' = Emit(s, "displayLaunchError")
                /\ hist' = PacedWith(ChosenWith(Note(s, "exit", "swap"), s, m_ActiveVideo[s]),
                                  s, SwapVsync(s), SwapFramePacing(s))
                /\ Goto(s, "cleanup")
    /\ UNCHANGED <<globVars, envVars, taskVars, inVars, m_NeedsIdr, cbVars, dtor,
                   m_UnexpectedTermination, launchVars, fault>>

\* line 1209
exec_swap_needsIdr(s) ==
    /\ pc[s] = "swap_idr"
    /\ m_NeedsIdr' = [m_NeedsIdr EXCEPT ![s] = TRUE]
    /\ hist' = Note(s, "idr", "pending")
    /\ Goto(s, "swap_unlock")
    /\ UNCHANGED <<globVars, envVars, taskVars, inVars, m_VideoDecoder, liveDecoders,
                   m_DecoderLock, cbVars, dtor, m_UnexpectedTermination, launchVars, sig, fault>>

\* line 1211
exec_swap_unlock(s) ==
    /\ pc[s] = "swap_unlock"
    /\ SDL_AtomicUnlock(m_DecoderLock, s)
    /\ Goto(s, "loop")
    /\ UNCHANGED <<globVars, envVars, taskVars, inVars, m_VideoDecoder, liveDecoders,
                   m_NeedsIdr, cbVars, dtor, m_UnexpectedTermination, launchVars, sig, hist, fault>>

(* ------------------- DispatchDeferredCleanup in exec -------------------- *)
\* lines 1250-1258: setCaptureActive(false), raiseAllKeys()
exec_cleanup(s) ==
    /\ pc[s] = "cleanup"
    /\ fault' = DerefHandler(s, "exec")
    /\ captureActive' = [captureActive EXCEPT ![s] = FALSE]
    /\ keysPressed' = [keysPressed EXCEPT ![s] = FALSE]
    /\ Goto(s, "input_lock")
    /\ UNCHANGED <<globVars, envVars, taskVars, inVars, decVars, cbVars, dtor,
                   m_UnexpectedTermination, fixedVars, windowFlags,
                   m_PendingWindowedTransition, sig, hist>>

\* line 1264
exec_input_lock(s) ==
    /\ pc[s] = "input_lock"
    /\ SDL_AtomicLock(m_InputHandlerLock, s)
    /\ Goto(s, "input_delete")
    /\ UNCHANGED <<globVars, envVars, taskVars, m_InputHandler, decVars, cbVars, dtor,
                   m_UnexpectedTermination, launchVars, sig, hist, fault>>

\* line 1265
exec_input_delete(s) ==
    /\ pc[s] = "input_delete"
    /\ m_InputHandler' = [m_InputHandler EXCEPT ![s] = "freed"]
    /\ Goto(s, "input_null")
    /\ UNCHANGED <<globVars, envVars, taskVars, m_InputHandlerLock, decVars, cbVars,
                   dtor, m_UnexpectedTermination, launchVars, sig,
                   hist, fault>>

\* line 1266
exec_input_null(s) ==
    /\ pc[s] = "input_null"
    /\ m_InputHandler' = [m_InputHandler EXCEPT ![s] = "null"]
    /\ Goto(s, "input_unlock")
    /\ UNCHANGED <<globVars, envVars, taskVars, m_InputHandlerLock, decVars, cbVars,
                   dtor, m_UnexpectedTermination, launchVars, sig,
                   hist, fault>>

\* (mutant) a teardown that goes from the input handler straight to the
\* window, leaving the decoder
exec_input_unlock_skippingDecoder(s) ==
    /\ pc[s] = "input_unlock"
    /\ SDL_AtomicUnlock(m_InputHandlerLock, s)
    /\ Goto(s, "dispatch")
    /\ UNCHANGED <<globVars, envVars, taskVars, m_InputHandler, decVars, cbVars, dtor,
                   m_UnexpectedTermination, launchVars, sig, hist, fault>>

\* line 1267
exec_input_unlock(s) ==
    /\ pc[s] = "input_unlock"
    /\ SDL_AtomicUnlock(m_InputHandlerLock, s)
    /\ Goto(s, "decoder_lock")
    /\ UNCHANGED <<globVars, envVars, taskVars, m_InputHandler, decVars, cbVars, dtor,
                   m_UnexpectedTermination, launchVars, sig, hist, fault>>

\* line 1270
exec_decoder_lock(s) ==
    /\ pc[s] = "decoder_lock"
    /\ SDL_AtomicLock(m_DecoderLock, s)
    /\ Goto(s, "decoder_delete")
    /\ UNCHANGED <<globVars, envVars, taskVars, inVars, m_VideoDecoder, liveDecoders,
                   m_NeedsIdr, cbVars, dtor, m_UnexpectedTermination, launchVars, sig, hist, fault>>

\* line 1271
exec_decoder_delete(s) ==
    /\ pc[s] = "decoder_delete"
    /\ DeleteDecoder(m_VideoDecoder[s])
    /\ hist' = DecoderGone(s)
    /\ Goto(s, "decoder_null")
    /\ UNCHANGED <<globVars, envVars, taskVars, inVars, m_VideoDecoder, m_DecoderLock,
                   m_NeedsIdr, cbVars, dtor, m_UnexpectedTermination, launchVars, sig>>

\* line 1272
exec_decoder_null(s) ==
    /\ pc[s] = "decoder_null"
    /\ m_VideoDecoder' = [m_VideoDecoder EXCEPT ![s] = NoDecoder]
    /\ Goto(s, "decoder_unlock")
    /\ UNCHANGED <<globVars, envVars, taskVars, inVars, liveDecoders, m_DecoderLock,
                   m_NeedsIdr, cbVars, dtor, m_UnexpectedTermination, launchVars, sig, hist, fault>>

\* line 1273
exec_decoder_unlock(s) ==
    /\ pc[s] = "decoder_unlock"
    /\ SDL_AtomicUnlock(m_DecoderLock, s)
    /\ Goto(s, "dispatch")
    /\ UNCHANGED <<globVars, envVars, taskVars, inVars, m_VideoDecoder, liveDecoders,
                   m_NeedsIdr, cbVars, dtor, m_UnexpectedTermination, launchVars, sig, hist, fault>>

\* (mutant) exec() itself releases the semaphore when it starts the task
exec_dispatch_releasing(s) ==
    /\ pc[s] = "dispatch"
    /\ SDL_QuitSubSystem
    /\ StartCleanupTask(s, IF hist.exit = "swap" THEN "swap" ELSE "quit")
    /\ s_ActiveSessionSemaphore' = s_ActiveSessionSemaphore + 1
    /\ Goto(s, "returned")
    /\ UNCHANGED <<s_ActiveSession, connLive, windowDisplay, currentDisplayIndex,
                   shouldQuit, inVars, decVars, cbVars, dtor,
                   m_UnexpectedTermination, launchVars, sig, fault>>

\* lines 1296-1307: destroy the window, quit the video subsystem, start the
\* cleanup task; exec() returns
exec_dispatch(s) ==
    /\ pc[s] = "dispatch"
    /\ SDL_QuitSubSystem
    /\ StartCleanupTask(s, IF hist.exit = "swap" THEN "swap" ELSE "quit")
    /\ Goto(s, "returned")
    /\ UNCHANGED <<globVars, windowDisplay, currentDisplayIndex, shouldQuit, inVars,
                   decVars, cbVars, dtor, m_UnexpectedTermination, launchVars, sig, fault>>

(* -------------------- DeferredSessionCleanupTask ------------------------ *)
\* (mutant) a task that quits the remote app whenever the preference says so
task_notify_always(s) ==
    /\ task[s] = "queued"
    /\ LET quit == quitAppAfter IN
        /\ shouldQuit' = [shouldQuit EXCEPT ![s] = quit]
        /\ sig' = IF quit THEN Emit(s, "quitStarting") ELSE Emit(s, "sessionFinished")
    /\ task' = [task EXCEPT ![s] = "stop"]
    /\ UNCHANGED <<globVars, envVars, pc, inVars, decVars, cbVars, dtor,
                   m_UnexpectedTermination, launchVars, hist, fault>>

\* run(), lines 634-645: decide shouldQuit and notify the UI
task_notify(s) ==
    /\ task[s] = "queued"
    /\ LET quit == ~m_UnexpectedTermination[s] /\ quitAppAfter IN
        /\ shouldQuit' = [shouldQuit EXCEPT ![s] = quit]
        /\ sig' = IF quit THEN Emit(s, "quitStarting") ELSE Emit(s, "sessionFinished")
    /\ task' = [task EXCEPT ![s] = "stop"]
    /\ UNCHANGED <<globVars, envVars, pc, inVars, decVars, cbVars, dtor,
                   m_UnexpectedTermination, launchVars, hist, fault>>

\* (mutant) the task releases the semaphore before it stops the transport
task_LiStopConnection_releasing(s) ==
    /\ task[s] = "stop"
    /\ task' = [task EXCEPT ![s] = "stopping"]
    /\ s_ActiveSessionSemaphore' = s_ActiveSessionSemaphore + 1
    /\ UNCHANGED <<s_ActiveSession, connLive, envVars, pc, shouldQuit, inVars,
                   decVars, cbVars, dtor, m_UnexpectedTermination, launchVars,
                   sig, hist, fault>>

\* (mutant) a task that clears s_ActiveSession before it stops the transport
task_LiStopConnection_clearing(s) ==
    /\ task[s] = "stop"
    /\ task' = [task EXCEPT ![s] = "stopping"]
    /\ s_ActiveSession' = NoSession
    /\ UNCHANGED <<s_ActiveSessionSemaphore, connLive, envVars, pc, shouldQuit, inVars,
                   decVars, cbVars, dtor, m_UnexpectedTermination, launchVars,
                   sig, hist, fault>>

\* line 648: LiStopConnection is entered
task_LiStopConnection(s) ==
    /\ task[s] = "stop"
    /\ task' = [task EXCEPT ![s] = "stopping"]
    /\ UNCHANGED <<globVars, envVars, pc, shouldQuit, inVars, decVars, cbVars, dtor,
                   m_UnexpectedTermination, launchVars, sig, hist, fault>>

\* line 648: LiStopConnection returns; the transport has joined its threads,
\* so no callback is running and none is delivered afterwards
task_LiStopConnection_return(s) ==
    /\ task[s] = "stopping"
    /\ subPc = "idle" /\ rumPc = "idle" /\ statPc = "idle"
    /\ connLive' = {}
    /\ task' = [task EXCEPT ![s] = "quit"]
    /\ UNCHANGED <<s_ActiveSessionSemaphore, s_ActiveSession, envVars, pc, shouldQuit,
                   inVars, decVars, cbVars, dtor, m_UnexpectedTermination,
                   launchVars, sig, hist, fault>>

\* (mutant) the task quits the remote app and says nothing afterwards
task_quitApp_silent(s) ==
    /\ task[s] = "quit"
    /\ sig' = IF shouldQuit[s] THEN Emit(s, "quitApp") ELSE sig
    /\ task' = [task EXCEPT ![s] = "clear"]
    /\ UNCHANGED <<globVars, envVars, pc, shouldQuit, inVars, decVars, cbVars, dtor,
                   m_UnexpectedTermination, launchVars, hist, fault>>

\* (mutant) a task in which an exception of quitApp ends run()
task_quitApp_throwing(s) ==
    /\ task[s] = "quit"
    /\ IF shouldQuit[s]
       THEN \E outcome \in {"ok", "GfeHttpResponseException", "QtNetworkReplyException"} :
                /\ sig' = Emit(s, "quitApp")
                /\ task' = [task EXCEPT ![s] = IF outcome = "ok" THEN "finish" ELSE "clear"]
       ELSE /\ task' = [task EXCEPT ![s] = "clear"]
            /\ UNCHANGED sig
    /\ UNCHANGED <<globVars, envVars, pc, shouldQuit, inVars, decVars, cbVars, dtor,
                   m_UnexpectedTermination, launchVars, hist, fault>>

\* lines 650-659: when shouldQuit, the best-effort http.quitApp(); it
\* returns, or throws one of the two exceptions into its empty catch clause
task_quitApp(s) ==
    /\ task[s] = "quit"
    /\ IF shouldQuit[s]
       THEN \E outcome \in {"ok", "GfeHttpResponseException", "QtNetworkReplyException"} :
                /\ sig' = Emit(s, "quitApp")
                /\ task' = [task EXCEPT ![s] = IF outcome = "ok" THEN "finish" ELSE "caught"]
       ELSE /\ task' = [task EXCEPT ![s] = "clear"]
            /\ UNCHANGED sig
    /\ UNCHANGED <<globVars, envVars, pc, shouldQuit, inVars, decVars, cbVars, dtor,
                   m_UnexpectedTermination, launchVars, hist, fault>>

\* lines 661-663, reached from the try block and from either catch clause:
\* emit sessionFinished; run() ends
task_sessionFinished(s) ==
    /\ task[s] \in {"finish", "caught"}
    /\ sig' = Emit(s, "sessionFinished")
    /\ task' = [task EXCEPT ![s] = "clear"]
    /\ UNCHANGED <<globVars, envVars, pc, shouldQuit, inVars, decVars, cbVars, dtor,
                   m_UnexpectedTermination, launchVars, hist, fault>>

\* (mutant) a task whose destructor releases the semaphore and leaves
\* s_ActiveSession as it is
task_clearActiveSession_forgotten(s) ==
    /\ task[s] = "clear"
    /\ task' = [task EXCEPT ![s] = "release"]
    /\ UNCHANGED <<globVars, envVars, pc, shouldQuit,
                   inVars, decVars, cbVars, dtor, m_UnexpectedTermination,
                   launchVars, sig, hist, fault>>

\* ~DeferredSessionCleanupTask, line 628
task_clearActiveSession(s) ==
    /\ task[s] = "clear"
    /\ s_ActiveSession' = NoSession
    /\ task' = [task EXCEPT ![s] = "release"]
    /\ UNCHANGED <<s_ActiveSessionSemaphore, connLive, envVars, pc, shouldQuit,
                   inVars, decVars, cbVars, dtor, m_UnexpectedTermination,
                   launchVars, sig, hist, fault>>

\* ~DeferredSessionCleanupTask, line 629
task_release(s) ==
    /\ task[s] = "release"
    /\ s_ActiveSessionSemaphore' = s_ActiveSessionSemaphore + 1
    /\ task' = [task EXCEPT ![s] = "done"]
    /\ UNCHANGED <<s_ActiveSession, connLive, envVars, pc, shouldQuit, inVars,
                   decVars, cbVars, dtor, m_UnexpectedTermination, launchVars, sig, hist, fault>>

(* --------------------------- Session::~Session -------------------------- *)
\* (mutant) a destructor that does not wait for the token
dtor_acquire_notWaiting(s) ==
    /\ dtor[s] = "alive"
    /\ pc[s] \in {"idle", "returned"}
    /\ dtor' = [dtor EXCEPT ![s] = "acquired"]
    /\ UNCHANGED <<globVars, envVars, pc, taskVars, inVars, decVars,
                   cbVars, m_UnexpectedTermination, launchVars, sig,
                   hist, fault>>

\* line 316: the destructor runs once exec() is not (or no longer) running
dtor_acquire(s) ==
    /\ dtor[s] = "alive"
    /\ pc[s] \in {"idle", "returned"}
    /\ s_ActiveSessionSemaphore > 0
    /\ s_ActiveSessionSemaphore' = s_ActiveSessionSemaphore - 1
    /\ dtor' = [dtor EXCEPT ![s] = "acquired"]
    /\ UNCHANGED <<s_ActiveSession, connLive, envVars, pc, taskVars, inVars, decVars,
                   cbVars, m_UnexpectedTermination, launchVars, sig,
                   hist, fault>>

\* line 317
dtor_release(s) ==
    /\ dtor[s] = "acquired"
    /\ s_ActiveSessionSemaphore' = s_ActiveSessionSemaphore + 1
    /\ dtor' = [dtor EXCEPT ![s] = "destroyed"]
    /\ UNCHANGED <<s_ActiveSession, connLive, envVars, pc, taskVars, inVars, decVars,
                   cbVars, m_UnexpectedTermination, launchVars, sig,
                   hist, fault>>

(* ----------------- callbacks on the transport's threads ----------------- *)
\* the transport delivers callbacks while a connection is live
Delivering == connLive # {}

\* (mutant) a video setup that makes the decoder at once
drSetup_choosingDecoder(s) ==
    /\ pc[s] = "connecting"
    /\ s_ActiveSession \in Sessions
    /\ m_ActiveVideo[s_ActiveSession] = UninitializedVideo
    /\ m_ActiveVideo' = [m_ActiveVideo EXCEPT ![s_ActiveSession] = negotiated]
    /\ m_VideoDecoder' = [m_VideoDecoder EXCEPT ![s_ActiveSession] = NewDecoder]
    /\ liveDecoders' = liveDecoders \cup {NewDecoder}
    /\ hist' = Note(s, "setup", negotiated)
    /\ UNCHANGED <<globVars, envVars, pc, taskVars, inVars, m_DecoderLock, m_NeedsIdr,
                   cbVars, dtor, m_UnexpectedTermination, quitAppAfter, inputVars,
                   cfgVars, probeVars, overlayVars, negotiated, windowVars, sig, fault>>

\* drSetup, lines 200-215: the transport calls it once, inside
\* LiStartConnection and on the thread that called it, when it starts the
\* video stream it negotiated; the four fields are written and 0 returned
drSetup(s) ==
    /\ pc[s] = "connecting"
    /\ s_ActiveSession \in Sessions
    /\ m_ActiveVideo[s_ActiveSession] = UninitializedVideo
    /\ m_ActiveVideo' = [m_ActiveVideo EXCEPT ![s_ActiveSession] = negotiated]
    /\ hist' = Note(s, "setup", negotiated)
    /\ UNCHANGED <<globVars, envVars, pc, taskVars, inVars, decVars,
                   cbVars, dtor, m_UnexpectedTermination, quitAppAfter, inputVars,
                   cfgVars, probeVars, overlayVars, negotiated, windowVars, sig, fault>>

\* (mutant) a termination callback that asks the loop to quit only on an error
clConnectionTerminated_quitOnError(errorCode) ==
    /\ Delivering
    /\ s_ActiveSession \in Sessions
    /\ Len(events) < MaxEvents
    /\ errorCode # 0 /\ s_ActiveSession = Observed => sig.displayLaunchError < MaxErrors
    /\ IF errorCode # 0
       THEN /\ m_UnexpectedTermination' =
                   [m_UnexpectedTermination EXCEPT ![s_ActiveSession] = TRUE]
            /\ sig' = Emit(s_ActiveSession, "displayLaunchError")
            /\ hist' = Note(s_ActiveSession, "termNonZero", TRUE)
            /\ events' = Append(events, "QUIT")
       ELSE /\ hist' = Note(s_ActiveSession, "termZero", TRUE)
            /\ UNCHANGED <<m_UnexpectedTermination, sig, events>>
    /\ UNCHANGED <<globVars, videoRefs, windowDisplay, currentDisplayIndex, pc, taskVars, inVars,
                   decVars, cbVars, dtor, launchVars, fault>>

\* clConnectionTerminated, lines 68-85
clConnectionTerminated(errorCode) ==
    /\ Delivering
    /\ s_ActiveSession \in Sessions
    /\ Len(events) < MaxEvents
    /\ errorCode # 0 /\ s_ActiveSession = Observed => sig.displayLaunchError < MaxErrors
    /\ IF errorCode # 0
       THEN /\ m_UnexpectedTermination' =
                   [m_UnexpectedTermination EXCEPT ![s_ActiveSession] = TRUE]
            /\ sig' = Emit(s_ActiveSession, "displayLaunchError")
            /\ hist' = Note(s_ActiveSession, "termNonZero", TRUE)
       ELSE /\ hist' = Note(s_ActiveSession, "termZero", TRUE)
            /\ UNCHANGED <<m_UnexpectedTermination, sig>>
    /\ events' = Append(events, "QUIT")
    /\ UNCHANGED <<globVars, videoRefs, windowDisplay, currentDisplayIndex, pc, taskVars, inVars,
                   decVars, cbVars, dtor, launchVars, fault>>

\* (mutant) a try-lock that reports success whatever the lock word holds
SDL_AtomicTryLock_always(lock) == TRUE

\* SDL_AtomicTryLock(&s_ActiveSession->m_DecoderLock), line 227: succeeds
\* exactly when the lock word is free
SDL_AtomicTryLock(lock) == lock = 0

\* (mutant) a drSubmitDecodeUnit that spins for the lock as the main thread does
drSubmitDecodeUnit_blocking(s) ==
    /\ Delivering
    /\ s = s_ActiveSession
    /\ subPc = "idle"
    /\ SDL_AtomicLock(m_DecoderLock, s)
    /\ subPc' = "locked"
    /\ subRet' = NoReturn
    /\ UNCHANGED <<globVars, envVars, pc, taskVars, inVars, m_VideoDecoder,
                   liveDecoders, m_NeedsIdr, subDecoder, rumPc, dtor,
                   m_UnexpectedTermination, launchVars, sig, hist, fault>>

\* drSubmitDecodeUnit, line 227: the try-lock, and the else branch 246-250
drSubmitDecodeUnit(s) ==
    /\ Delivering
    /\ s = s_ActiveSession
    /\ subPc = "idle"
    /\ IF SDL_AtomicTryLock(m_DecoderLock[s])
       THEN /\ m_DecoderLock' = [m_DecoderLock EXCEPT ![s] = 1]
            /\ subPc' = "locked"
            /\ subRet' = NoReturn
       ELSE \* lines 246-250
            /\ subPc' = "idle"
            /\ subRet' = [value |-> "DR_OK", branch |-> "lock_busy"]
            /\ UNCHANGED m_DecoderLock
    /\ UNCHANGED <<globVars, envVars, pc, taskVars, inVars, m_VideoDecoder,
                   liveDecoders, m_NeedsIdr, subDecoder, rumPc, dtor,
                   m_UnexpectedTermination, launchVars, sig, hist, fault>>

\* history: a submit that took the lock has returned; it was the first since
\* the decoder was created, or a later one
SubmitReturned(s) ==
    CASE hist.idr = "pending" -> Note(s, "idr", "served")
      [] hist.idr = "owed" -> Note(s, "idr", "none")
      [] OTHER -> hist

\* (mutant) a submit that asks for the IDR frame and leaves the flag set
drSubmitDecodeUnit_locked_keepsFlag(s) ==
    /\ s = s_ActiveSession
    /\ subPc = "locked"
    /\ IF m_NeedsIdr[s]
       THEN /\ m_DecoderLock' = [m_DecoderLock EXCEPT ![s] = 0]
            /\ subPc' = "idle"
            /\ subRet' = [value |-> "DR_NEED_IDR", branch |-> "needs_idr"]
            /\ hist' = SubmitReturned(s)
            /\ UNCHANGED <<m_NeedsIdr, subDecoder>>
       ELSE IF m_VideoDecoder[s] # NoDecoder
       THEN /\ subDecoder' = m_VideoDecoder[s]
            /\ subPc' = "forward"
            /\ UNCHANGED <<m_NeedsIdr, m_DecoderLock, subRet, hist>>
       ELSE /\ m_DecoderLock' = [m_DecoderLock EXCEPT ![s] = 0]
            /\ subPc' = "idle"
            /\ subRet' = [value |-> "DR_OK", branch |-> "no_decoder"]
            /\ hist' = SubmitReturned(s)
            /\ UNCHANGED <<m_NeedsIdr, subDecoder>>
    /\ UNCHANGED <<globVars, envVars, pc, taskVars, inVars, m_VideoDecoder,
                   liveDecoders, rumPc, dtor, m_UnexpectedTermination, launchVars, sig, fault>>

\* lines 228-244: with the lock held, m_NeedsIdr and then m_VideoDecoder are read
drSubmitDecodeUnit_locked(s) ==
    /\ s = s_ActiveSession
    /\ subPc = "locked"
    /\ IF m_NeedsIdr[s]
       THEN /\ m_NeedsIdr' = [m_NeedsIdr EXCEPT ![s] = FALSE]
            /\ m_DecoderLock' = [m_DecoderLock EXCEPT ![s] = 0]
            /\ subPc' = "idle"
            /\ subRet' = [value |-> "DR_NEED_IDR", branch |-> "needs_idr"]
            /\ hist' = SubmitReturned(s)
            /\ UNCHANGED subDecoder
       ELSE IF m_VideoDecoder[s] # NoDecoder
       THEN /\ subDecoder' = m_VideoDecoder[s]
            /\ subPc' = "forward"
            /\ UNCHANGED <<m_NeedsIdr, m_DecoderLock, subRet, hist>>
       ELSE /\ m_DecoderLock' = [m_DecoderLock EXCEPT ![s] = 0]
            /\ subPc' = "idle"
            /\ subRet' = [value |-> "DR_OK", branch |-> "no_decoder"]
            /\ hist' = SubmitReturned(s)
            /\ UNCHANGED <<m_NeedsIdr, subDecoder>>
    /\ UNCHANGED <<globVars, envVars, pc, taskVars, inVars, m_VideoDecoder,
                   liveDecoders, rumPc, dtor, m_UnexpectedTermination, launchVars, sig, fault>>

\* lines 237-239: decoder->submitDecodeUnit(du), unlock, return its result
drSubmitDecodeUnit_forward(s) ==
    /\ s = s_ActiveSession
    /\ subPc = "forward"
    /\ fault' = IF subDecoder \in liveDecoders THEN fault
                ELSE fault \cup {"drSubmitDecodeUnit"}
    /\ \E ret \in {"DR_OK", "DR_NEED_IDR"} :
          subRet' = [value |-> ret, branch |-> "forwarded"]
    /\ m_DecoderLock' = [m_DecoderLock EXCEPT ![s] = 0]
    /\ subDecoder' = NoDecoder
    /\ subPc' = "idle"
    /\ hist' = SubmitReturned(s)
    /\ UNCHANGED <<globVars, envVars, pc, taskVars, inVars, m_VideoDecoder,
                   liveDecoders, m_NeedsIdr, rumPc, dtor, m_UnexpectedTermination,
                   launchVars, sig>>

\* clRumble, line 103
clRumble(s) ==
    /\ Delivering
    /\ s = s_ActiveSession
    /\ rumPc = "idle"
    /\ SDL_AtomicLock(m_InputHandlerLock, s)
    /\ rumPc' = "locked"
    /\ UNCHANGED <<globVars, envVars, pc, taskVars, m_InputHandler, decVars, subPc,
                   subDecoder, subRet, dtor, m_UnexpectedTermination, launchVars, sig, hist, fault>>

\* line 104: the null test
clRumble_test(s) ==
    /\ s = s_ActiveSession
    /\ rumPc = "locked"
    /\ rumPc' = IF m_InputHandler[s] # "null" THEN "rumble" ELSE "unlock"
    /\ UNCHANGED <<globVars, envVars, pc, taskVars, inVars, decVars, subPc,
                   subDecoder, subRet, dtor, m_UnexpectedTermination, launchVars, sig, hist, fault>>

\* line 105: m_InputHandler->rumble(...)
clRumble_rumble(s) ==
    /\ s = s_ActiveSession
    /\ rumPc = "rumble"
    /\ fault' = DerefHandler(s, "clRumble")
    /\ rumPc' = "unlock"
    /\ UNCHANGED <<globVars, envVars, pc, taskVars, inVars, decVars, subPc,
                   subDecoder, subRet, dtor, m_UnexpectedTermination, launchVars, sig, hist>>

\* line 107
clRumble_unlock(s) ==
    /\ s = s_ActiveSession
    /\ rumPc = "unlock"
    /\ SDL_AtomicUnlock(m_InputHandlerLock, s)
    /\ rumPc' = "idle"
    /\ UNCHANGED <<globVars, envVars, pc, taskVars, m_InputHandler, decVars, subPc,
                   subDecoder, subRet, dtor, m_UnexpectedTermination, launchVars, sig, hist, fault>>

(* -------------- clConnectionStatusUpdate (lines 110-141) ---------------- *)
\* the status thread returns from the callback
stat_return ==
    /\ statPc' = "idle"
    /\ statStatus' = "none"

\* line 110: the transport calls the callback on one of its threads
clConnectionStatusUpdate(connectionStatus) ==
    /\ Delivering
    /\ s_ActiveSession \in Sessions
    /\ statPc = "idle"
    /\ statStatus' = connectionStatus
    /\ statPc' = "warnings"
    /\ UNCHANGED <<lifeVars, inputVars, cfgVars, probeVars, setupVars, windowVars,
                   connectionWarnings, bitrateKbps, m_MouseEmulationRefCount,
                   overlayText, overlayEnabled>>

\* lines 116-118: nothing to do when the warnings are turned off
clConnectionStatusUpdate_warnings ==
    /\ statPc = "warnings"
    /\ IF ~connectionWarnings
       THEN stat_return
       ELSE statPc' = "refcount" /\ UNCHANGED statStatus
    /\ UNCHANGED <<lifeVars, inputVars, cfgVars, probeVars, setupVars, windowVars,
                   connectionWarnings, bitrateKbps, m_MouseEmulationRefCount,
                   overlayText, overlayEnabled>>

\* lines 120-123: nothing to do when mouse emulation is using the overlay
clConnectionStatusUpdate_refcount ==
    /\ statPc = "refcount"
    /\ IF m_MouseEmulationRefCount[s_ActiveSession] > 0
       THEN stat_return
       ELSE statPc' = "switch" /\ UNCHANGED statStatus
    /\ UNCHANGED <<lifeVars, inputVars, cfgVars, probeVars, setupVars, windowVars,
                   connectionWarnings, bitrateKbps, m_MouseEmulationRefCount,
                   overlayText, overlayEnabled>>

\* (mutant) a callback whose texts are the other way round
clConnectionStatusUpdate_switch_swappedTexts ==
    /\ statPc = "switch"
    /\ IF statStatus = "CONN_STATUS_POOR"
       THEN /\ overlayText' = [overlayText EXCEPT ![s_ActiveSession] =
                                 IF bitrateKbps > 5000
                                 THEN PoorConnectionText ELSE SlowConnectionText]
            /\ statPc' = "state"
            /\ UNCHANGED <<statStatus, overlayEnabled>>
       ELSE /\ overlayEnabled' = [overlayEnabled EXCEPT ![s_ActiveSession] = FALSE]
            /\ stat_return
            /\ UNCHANGED overlayText
    /\ UNCHANGED <<lifeVars, inputVars, cfgVars, probeVars, setupVars, windowVars,
                   connectionWarnings, bitrateKbps, m_MouseEmulationRefCount>>

\* lines 125-139, the switch: CONN_STATUS_POOR copies the text that goes
\* with m_StreamConfig.bitrate (the preference bitrateKbps, line 357) and
\* marks it updated (128-134); CONN_STATUS_OKAY hides the overlay (138)
clConnectionStatusUpdate_switch ==
    /\ statPc = "switch"
    /\ IF statStatus = "CONN_STATUS_POOR"
       THEN /\ overlayText' = [overlayText EXCEPT ![s_ActiveSession] =
                                 IF bitrateKbps > 5000
                                 THEN SlowConnectionText ELSE PoorConnectionText]
            /\ statPc' = "state"
            /\ UNCHANGED <<statStatus, overlayEnabled>>
       ELSE /\ overlayEnabled' = [overlayEnabled EXCEPT ![s_ActiveSession] = FALSE]
            /\ stat_return
            /\ UNCHANGED overlayText
    /\ UNCHANGED <<lifeVars, inputVars, cfgVars, probeVars, setupVars, windowVars,
                   connectionWarnings, bitrateKbps, m_MouseEmulationRefCount>>

\* line 135: setOverlayState(Overlay::OverlayStatusUpdate, true)
clConnectionStatusUpdate_state ==
    /\ statPc = "state"
    /\ overlayEnabled' = [overlayEnabled EXCEPT ![s_ActiveSession] = TRUE]
    /\ stat_return
    /\ UNCHANGED <<lifeVars, inputVars, cfgVars, probeVars, setupVars, windowVars,
                   connectionWarnings, bitrateKbps, m_MouseEmulationRefCount,
                   overlayText>>

(* ---------------- notifyMouseEmulationMode (lines 827-841) -------------- *)
\* The input handler calls it on the main thread while it handles a gamepad
\* event of the loop: with true when a gamepad enters mouse mode, with false
\* when one leaves it (SDL_assert, line 830).
notifyMouseEmulationMode(s, enabled) ==
    /\ pc[s] = "loop" /\ m_InputHandler[s] = "live"
    /\ IF enabled
       THEN m_MouseEmulationRefCount[s] < MaxGamepads
       ELSE m_MouseEmulationRefCount[s] > 0
    /\ LET count == m_MouseEmulationRefCount[s] + (IF enabled THEN 1 ELSE -1) IN
        /\ m_MouseEmulationRefCount' = [m_MouseEmulationRefCount EXCEPT ![s] = count]
        /\ IF count > 0
           THEN /\ overlayText' = [overlayText EXCEPT ![s] = MouseModeText]
                /\ overlayEnabled' = [overlayEnabled EXCEPT ![s] = TRUE]
           ELSE /\ overlayEnabled' = [overlayEnabled EXCEPT ![s] = FALSE]
                /\ UNCHANGED overlayText
    /\ UNCHANGED <<lifeVars, inputVars, cfgVars, probeVars, setupVars, windowVars,
                   connectionWarnings, bitrateKbps, statPc, statStatus>>

(* ------------------- the window system (environment) -------------------- *)
\* a session has its stream window from SDL_CreateWindow to SDL_DestroyWindow
HasWindow(s) == pc[s] \in {"preloop", "loop", "swap_lock", "swap_delete", "swap_flush",
                           "swap_choose", "swap_idr", "swap_unlock", "cleanup",
                           "input_lock", "input_delete", "input_null", "input_unlock",
                           "decoder_lock", "decoder_delete", "decoder_null",
                           "decoder_unlock", "dispatch"}

\* SDL queues an event of the window system: the user closes the window,
\* resizes it, moves focus away, or the render device is lost
sdl_event(type) ==
    /\ \E s \in Sessions : HasWindow(s)
    /\ Len(events) < MaxEvents
    /\ events' = Append(events, type)
    /\ UNCHANGED <<globVars, videoRefs, windowDisplay, currentDisplayIndex, pc, taskVars, inVars,
                   decVars, cbVars, dtor, m_UnexpectedTermination, launchVars, sig, hist, fault>>

\* the decoder of a stream has a frame for the main thread to render and
\* pushes SDL_USEREVENT with SDL_CODE_FRAME_READY, from its own thread
decoder_frameReady(s) ==
    /\ m_VideoDecoder[s] \in liveDecoders
    /\ Len(events) < MaxEvents
    /\ events' = Append(events, "FRAME_READY")
    /\ UNCHANGED <<globVars, videoRefs, windowDisplay, currentDisplayIndex, pc, taskVars, inVars,
                   decVars, cbVars, dtor, m_UnexpectedTermination, launchVars, sig, hist, fault>>

\* the user drags the window to another display
sdl_moveWindow(d) ==
    /\ \E s \in Sessions : pc[s] = "loop"
    /\ d # windowDisplay
    /\ windowDisplay' = d
    /\ UNCHANGED <<globVars, events, videoRefs, currentDisplayIndex, pc, taskVars, inVars,
                   decVars, cbVars, dtor, m_UnexpectedTermination, launchVars, sig, hist, fault>>

(* ------------------ Session::initialize, validateLaunch ----------------- *)
\* QString::isEmpty and QString::startsWith on strings kept as sequences of
\* characters
isEmpty(str) == Len(str) = 0
startsWith(str, prefix) ==
    Len(str) >= Len(prefix) /\ SubSeq(str, 1, Len(prefix)) = prefix

\* isHardwareDecodeAvailable, lines 253-268: a test decoder is chosen for the
\* format and size and asked whether it is hardware accelerated.  Within one
\* initialize() the window, the decoder selection and the frame rate passed
\* are always the same, so the answer varies with format and size only.
isHardwareDecodeAvailable(videoFormat, width) == <<videoFormat, width>> \in hwDecode

\* testAudio(audioConfiguration)
testAudio(audioConfiguration) == audioConfiguration \in audioDevice

\* emitLaunchWarning, lines 469-483, on the state v that validateLaunch threads
\* through its checks
emitLaunchWarning(v, text) == [v EXCEPT !.warnings = Append(@, text)]

\* (mutant) a generator seeded anew, and the same, by each initialize()
RAND_bytes_reseeded(call) == entropy[call]

\* RAND_bytes, lines 366-370: what the call-th call from now delivers
RAND_bytes(call) == entropy[randCalls + call]

\* initialize(), lines 353-433: the stream configuration from the preferences;
\* the key is random, and so is the first of the two parts of the IV (its
\* first 4 bytes; the other 12 stay as LiInitializeStreamConfiguration left them)
initialize_config ==
    LET vcc == m_Preferences.videoCodecConfig IN
    [remoteInputAesKey |-> RAND_bytes(1),
     remoteInputAesIv |-> <<RAND_bytes(2), 0>>,
     width |-> m_Preferences.width,
     height |-> m_Preferences.height,
     fps |-> m_Preferences.fps,
     hevcBitratePercentageMultiplier |-> 75,
     packetSize |-> 1392,
     audioConfiguration |->
        IF m_Preferences.audioConfig = "AC_STEREO"
        THEN "AUDIO_CONFIGURATION_STEREO" ELSE "AUDIO_CONFIGURATION_51_SURROUND",
     supportsHevc |->
        CASE vcc = "VCC_AUTO" ->
                isHardwareDecodeAvailable("VIDEO_FORMAT_H265", m_Preferences.width)
          [] vcc = "VCC_FORCE_H264" -> FALSE
          [] vcc = "VCC_FORCE_HEVC" -> TRUE
          [] vcc = "VCC_FORCE_HEVC_HDR" -> TRUE,
     enableHdr |-> vcc = "VCC_FORCE_HEVC_HDR"]

\* validateLaunch, lines 489-499: forced software decoding, unsupported FPS
validateLaunch_preferences(v) ==
    LET a == IF m_Preferences.videoDecoderSelection = "VDS_FORCE_SOFTWARE"
             THEN emitLaunchWarning(v, "force software decoding")
             ELSE v
    IN  IF m_Preferences.unsupportedFps /\ a.config.fps > 60
        THEN IF m_Preferences.enableVsync
             THEN emitLaunchWarning(emitLaunchWarning(a, "unsupported FPS"),
                                    "V-sync will be disabled")
             ELSE emitLaunchWarning(a, "unsupported FPS")
        ELSE a

\* (mutant) a check that gives HEVC up without hardware decoding even when
\* it was forced
validateLaunch_hevc_clearingForced(v) ==
    IF ~v.config.supportsHevc THEN v
    ELSE
    LET hevcForced == m_Preferences.videoCodecConfig
                          \in {"VCC_FORCE_HEVC", "VCC_FORCE_HEVC_HDR"}
        a == IF /\ ~isHardwareDecodeAvailable("VIDEO_FORMAT_H265", v.config.width)
                /\ m_Preferences.videoDecoderSelection = "VDS_AUTO"
             THEN [emitLaunchWarning(v, IF hevcForced
                                        THEN "software decoding due to forced HEVC"
                                        ELSE "PC GPU doesn't support HEVC")
                       EXCEPT !.config.supportsHevc = FALSE]
             ELSE v
    IN  IF hevcForced /\ m_Computer.maxLumaPixelsHEVC = 0
        THEN [emitLaunchWarning(a, "host GPU doesn't support HEVC")
                  EXCEPT !.config.supportsHevc = FALSE]
        ELSE a

\* validateLaunch, lines 501-532: HEVC
validateLaunch_hevc(v) ==
    IF ~v.config.supportsHevc THEN v
    ELSE
    LET hevcForced == m_Preferences.videoCodecConfig
                          \in {"VCC_FORCE_HEVC", "VCC_FORCE_HEVC_HDR"}
        a == IF /\ ~isHardwareDecodeAvailable("VIDEO_FORMAT_H265", v.config.width)
                /\ m_Preferences.videoDecoderSelection = "VDS_AUTO"
             THEN IF hevcForced
                  THEN emitLaunchWarning(v, "software decoding due to forced HEVC")
                  ELSE [emitLaunchWarning(v, "PC GPU doesn't support HEVC")
                            EXCEPT !.config.supportsHevc = FALSE]
             ELSE v
    IN  IF hevcForced /\ m_Computer.maxLumaPixelsHEVC = 0
        THEN [emitLaunchWarning(a, "host GPU doesn't support HEVC")
                  EXCEPT !.config.supportsHevc = FALSE]
        ELSE a

\* (mutant) the HDR checks without the one of the host GPU
validateLaunch_hdr_noHostCheck(v) ==
    IF ~v.config.enableHdr THEN v
    ELSE
    LET off == [v EXCEPT !.config.enableHdr = FALSE] IN
        IF ~m_App.hdrSupported
        THEN emitLaunchWarning(off, "app doesn't support HDR10")
        ELSE IF ~isHardwareDecodeAvailable("VIDEO_FORMAT_H265_MAIN10", v.config.width)
        THEN emitLaunchWarning(off, "PC GPU doesn't support HEVC Main10")
        ELSE v

\* validateLaunch, lines 534-561: HDR is turned back off unless the
\* application, the host GPU and this PC's decoder all support it
validateLaunch_hdr(v) ==
    IF ~v.config.enableHdr THEN v
    ELSE
    LET off == [v EXCEPT !.config.enableHdr = FALSE] IN
        IF ~m_App.hdrSupported
        THEN emitLaunchWarning(off, "app doesn't support HDR10")
        ELSE IF BitAnd(m_Computer.serverCodecModeSupport, 512) = 0
        THEN emitLaunchWarning(off, "host GPU doesn't support HDR")
        ELSE IF ~isHardwareDecodeAvailable("VIDEO_FORMAT_H265_MAIN10", v.config.width)
        THEN emitLaunchWarning(off, "PC GPU doesn't support HEVC Main10")
        ELSE v

\* a 4K rule that looks at the first digit of the version only
validateLaunch_4k_firstDigit(v) ==
    IF /\ v.config.width >= 3840
       /\ \/ isEmpty(m_Computer.gfeVersion)
          \/ startsWith(m_Computer.gfeVersion, <<"2">>)
    THEN [emitLaunchWarning(v, "GFE 3.0 required for 4K")
              EXCEPT !.config.width = 1920, !.config.height = 1080]
    ELSE v

\* validateLaunch, lines 563-571: 4K needs GFE 3.x
validateLaunch_4k(v) ==
    IF /\ v.config.width >= 3840
       /\ \/ isEmpty(m_Computer.gfeVersion)
          \/ startsWith(m_Computer.gfeVersion, <<"2", ".">>)
    THEN [emitLaunchWarning(v, "GFE 3.0 required for 4K")
              EXCEPT !.config.width = 1920, !.config.height = 1080]
    ELSE v

\* validateLaunch, lines 573-594: the audio test with its stereo fallback,
\* then the unmapped gamepads
validateLaunch_audio(v) ==
    LET surround == v.config.audioConfiguration = "AUDIO_CONFIGURATION_51_SURROUND"
        first == testAudio(v.config.audioConfiguration)
        second == testAudio("AUDIO_CONFIGURATION_STEREO")
        audioTestPassed == first \/ (surround /\ second)
        a == IF ~first /\ surround /\ second
             THEN [emitLaunchWarning(v, "5.1 surround not supported")
                       EXCEPT !.config.audioConfiguration = "AUDIO_CONFIGURATION_STEREO"]
             ELSE v
        b == [a EXCEPT !.audioDisabled = ~audioTestPassed]
        c == IF b.audioDisabled
             THEN emitLaunchWarning(b, "failed to open audio device")
             ELSE b
    IN  IF unmappedGamepads
        THEN emitLaunchWarning(c, "gamepad has no mapping")
        ELSE c

\* a validateLaunch whose last check warns and lets the launch go on
validateLaunch_hardware_warns(v) ==
    IF /\ m_Preferences.videoDecoderSelection = "VDS_FORCE_HARDWARE"
       /\ ~isHardwareDecodeAvailable(IF v.config.supportsHevc
                                     THEN "VIDEO_FORMAT_H265" ELSE "VIDEO_FORMAT_H264",
                                     v.config.width)
    THEN emitLaunchWarning(v, "force hardware decoding cannot be satisfied")
    ELSE v

\* validateLaunch, lines 596-614: forced hardware decoding that cannot be had
\* fails the launch
validateLaunch_hardware(v) ==
    IF /\ m_Preferences.videoDecoderSelection = "VDS_FORCE_HARDWARE"
       /\ ~isHardwareDecodeAvailable(IF v.config.supportsHevc
                                     THEN "VIDEO_FORMAT_H265" ELSE "VIDEO_FORMAT_H264",
                                     v.config.width)
    THEN [v EXCEPT !.ret = FALSE,
                   !.errors = Append(@,
                       IF m_Preferences.videoCodecConfig = "VCC_AUTO"
                       THEN "force hardware decoding cannot be satisfied"
                       ELSE "codec selection and force hardware decoding not compatible")]
    ELSE [v EXCEPT !.ret = TRUE]

\* validateLaunch, lines 485-615, on the configuration initialize() has set up
validateLaunch(config) ==
    validateLaunch_hardware(
      validateLaunch_audio(
        validateLaunch_4k(
          validateLaunch_hdr(
            validateLaunch_hevc(
              validateLaunch_preferences(
                [config |-> config, warnings |-> <<>>, errors |-> <<>>,
                 audioDisabled |-> FALSE, ret |-> TRUE]))))))

\* exec() lines 845-854 with initialize(), lines 320-467, in full: the two
\* SDL failures, else the configuration, its validation, and the exit of
\* exec() when initialize() returned false
initialize(s) ==
    /\ pc[s] = "idle" /\ dtor[s] = "alive"
    /\ \E sdl \in {"ok", "sdl_fail", "window_fail"} :
        IF sdl # "ok"
        THEN /\ InitVideoFor(sdl)
             /\ Goto(s, "returned")
             /\ hist' = Note(s, "exit", sdl)
             /\ sig' = Emit(s, "sessionFinished")
             /\ UNCHANGED cfgVars
        ELSE LET v == validateLaunch(initialize_config) IN
             /\ m_StreamConfig' = [m_StreamConfig EXCEPT ![s] = v.config]
             /\ m_AudioDisabled' = [m_AudioDisabled EXCEPT ![s] = v.audioDisabled]
             /\ warnings' = [warnings EXCEPT ![s] = v.warnings]
             /\ launchErrors' = [launchErrors EXCEPT ![s] = v.errors]
             /\ randCalls' = randCalls + 2
             /\ IF v.ret
                THEN /\ InitVideoFor("ok")
                     /\ Goto(s, "wait")
                     /\ UNCHANGED <<sig, hist>>
                ELSE /\ InitVideoFor("validate_fail")
                     /\ Goto(s, "returned")
                     /\ hist' = Note(s, "exit", "validate_fail")
                     /\ sig' = EmitIn(Emit(s, "displayLaunchError"), s, "sessionFinished")
    /\ UNCHANGED <<globVars, windowDisplay, currentDisplayIndex, taskVars, inVars,
                   decVars, cbVars, dtor, m_UnexpectedTermination, quitAppAfter, overlayVars, setupVars, windowVars,
                   inputVars, probeVars, fault>>

(* ------------- the test decoders of initialize() (lines 253-285) -------- *)
\* a probe returns: its locals are gone
probe_return ==
    /\ probePc' = "idle"
    /\ probeFn' = "none"
    /\ probeDecoder' = NoDecoder
    /\ probeCandidate' = 1

\* isHardwareDecodeAvailable, line 257, and getDecoderCapabilities, line 274:
\* `IVideoDecoder* decoder;` is declared without a value and chooseDecoder
\* called with it
probe_call(s) ==
    /\ pc[s] = "idle" /\ dtor[s] = "alive"
    /\ probePc = "idle"
    /\ probeFn' \in {"isHardwareDecodeAvailable", "getDecoderCapabilities"}
    /\ probeDecoder' \in DecoderIds \cup {NoDecoder}
    /\ probeCandidate' = 1
    /\ probePc' = "new"
    /\ hist' = Note(s, "probed", TRUE)
    /\ UNCHANGED <<globVars, envVars, pc, taskVars, inVars, decVars, cbVars, dtor,
                   m_UnexpectedTermination, quitAppAfter, overlayVars, setupVars, windowVars, inputVars, cfgVars, sig,
                   fault, decoderLibraries>>

\* chooseDecoder, lines 161 and 175: chosenDecoder = new ...VideoDecoder(testOnly)
chooseDecoder_new ==
    /\ probePc = "new"
    /\ probeDecoder' = NewDecoder
    /\ liveDecoders' = liveDecoders \cup {NewDecoder}
    /\ probePc' = "initialize"
    /\ UNCHANGED <<globVars, envVars, pc, taskVars, inVars, m_VideoDecoder,
                   m_DecoderLock, m_NeedsIdr, cbVars, dtor, m_UnexpectedTermination,
                   quitAppAfter, overlayVars, setupVars, windowVars, inputVars, cfgVars, sig, hist, fault,
                   decoderLibraries, probeFn, probeCandidate>>

\* chooseDecoder, lines 162-171 and 176-185: the candidate initializes and is
\* returned, or is deleted and the pointer nulled; lines 192-197: after the
\* last candidate chooseDecoder returns false and so does the probe
chooseDecoder_initialize ==
    /\ probePc = "initialize"
    /\ \E initialized \in BOOLEAN :
        IF initialized
        THEN /\ probePc' = "chosen"
             /\ UNCHANGED <<probeFn, probeDecoder, probeCandidate, liveDecoders, fault>>
        ELSE /\ DeleteDecoder(probeDecoder)
             /\ IF probeCandidate < Len(decoderLibraries)
                THEN /\ probeDecoder' = NoDecoder
                     /\ probeCandidate' = probeCandidate + 1
                     /\ probePc' = "new"
                     /\ UNCHANGED probeFn
                ELSE probe_return
    /\ UNCHANGED <<globVars, envVars, pc, taskVars, inVars, m_VideoDecoder,
                   m_DecoderLock, m_NeedsIdr, cbVars, dtor, m_UnexpectedTermination,
                   quitAppAfter, overlayVars, setupVars, windowVars, inputVars, cfgVars, sig, hist, decoderLibraries>>

\* lines 261-267 and 278-284: the decoder is asked, deleted, the answer returned
probe_delete ==
    /\ probePc = "chosen"
    /\ DeleteDecoder(probeDecoder)
    /\ probe_return
    /\ UNCHANGED <<globVars, envVars, pc, taskVars, inVars, m_VideoDecoder,
                   m_DecoderLock, m_NeedsIdr, cbVars, dtor, m_UnexpectedTermination,
                   quitAppAfter, overlayVars, setupVars, windowVars, inputVars, cfgVars, sig, hist, decoderLibraries>>

(* --------------------------- specifications ----------------------------- *)
\* the steps of exec() outside the decoder swap
exec_streaming(s) ==
    \/ exec_acquire(s) \/ exec_setActive(s) \/ exec_launch(s)
    \/ exec_LiStartConnection(s) \/ drSetup(s) \/ exec_LiStartConnection_return(s)
    \/ exec_createWindow(s)
    \/ exec_windowFailed_delete(s) \/ exec_windowFailed_null(s)
    \/ exec_windowFailed_task(s)
    \/ exec_clearUnexpected(s) \/ exec_pollEvent(s)
    \/ exec_cleanup(s)
    \/ exec_input_lock(s) \/ exec_input_delete(s) \/ exec_input_null(s)
    \/ exec_input_unlock(s)
    \/ exec_decoder_lock(s) \/ exec_decoder_delete(s) \/ exec_decoder_null(s)
    \/ exec_decoder_unlock(s)
    \/ exec_dispatch(s)

exec_steps(s) == exec_initialize(s) \/ exec_streaming(s)

\* the decoder swap of the event loop, lines 1158-1212
exec_swap(s) ==
    \/ exec_swap_lock(s) \/ exec_swap_delete(s) \/ exec_swap_flush(s)
    \/ exec_swap_choose(s) \/ exec_swap_needsIdr(s) \/ exec_swap_unlock(s)

MainThread(s) == exec_steps(s) \/ exec_swap(s)

CleanupTask(s) ==
    \/ task_notify(s) \/ task_LiStopConnection(s) \/ task_LiStopConnection_return(s)
    \/ task_quitApp(s) \/ task_sessionFinished(s)
    \/ task_clearActiveSession(s) \/ task_release(s)

Destructor(s) == dtor_acquire(s) \/ dtor_release(s)

SubmitThread(s) ==
    \/ drSubmitDecodeUnit(s) \/ drSubmitDecodeUnit_locked(s)
    \/ drSubmitDecodeUnit_forward(s)

StatusThread ==
    \/ \E connectionStatus \in ConnectionStatuses :
            clConnectionStatusUpdate(connectionStatus)
    \/ clConnectionStatusUpdate_warnings
    \/ clConnectionStatusUpdate_refcount
    \/ clConnectionStatusUpdate_switch
    \/ clConnectionStatusUpdate_state

RumbleThread(s) ==
    \/ clRumble(s) \/ clRumble_test(s) \/ clRumble_rumble(s) \/ clRumble_unlock(s)

WindowSystem ==
    \/ \E type \in EventTypes : sdl_event(type)
    \/ \E d \in Displays : sdl_moveWindow(d)

\* Admission: overlapping exec() calls of all the sessions, their cleanup
\* tasks and destructors.  The streams end by a quit event (the user closes
\* the window or the connection terminates); the window system delivers no
\* resize, focus or device-reset event here, so no decoder is swapped.
Next ==
    \/ \E s \in Sessions : exec_steps(s)
    \/ \E s \in Sessions : CleanupTask(s)
    \/ \E s \in Sessions : Destructor(s)
    \/ \E errorCode \in {0, -1} : clConnectionTerminated(errorCode)
    \/ sdl_event("QUIT")

Spec == LifeInit /\ [][Next]_vars

\* One session from construction to destruction, with every event of the
\* window system and the termination callback
NextSession ==
    \/ MainThread(Observed)
    \/ CleanupTask(Observed)
    \/ Destructor(Observed)
    \/ \E errorCode \in {0, -1} : clConnectionTerminated(errorCode)
    \/ WindowSystem

SpecSession == LifeInit /\ [][NextSession]_vars

\* The same with the scheduling the runtime gives: the main thread keeps
\* running exec(), the thread pool runs a started task to its end, and a
\* destructor that took the token goes on to release it.  Nothing is assumed
\* of the window system or of the transport.
SpecSessionFair ==
    /\ SpecSession
    /\ WF_lifeVars(MainThread(Observed))
    /\ WF_lifeVars(CleanupTask(Observed))
    /\ WF_lifeVars(dtor_release(Observed))

\* One session, launched at a host that runs no game or runs the game
\* already (line 879: currentGameId is 0 or m_App.id), under the same
\* scheduling
ResumeInit ==
    /\ Constructed
    /\ OrdinaryStream
    /\ quitAppAfter \in BOOLEAN
    /\ m_Preferences = VideoPreferences("VCC_AUTO", "VDS_AUTO", 1920, QuietPreferences)
    /\ m_App = [hdrSupported |-> TRUE, id |-> 1]
    /\ m_Computer \in {[ModernHost EXCEPT !.currentGameId = id] : id \in {0, m_App.id}}
    /\ hwDecode = VideoFormats \X {1920}
    /\ audioDevice = AudioConfigurations
    /\ unmappedGamepads = FALSE
    /\ entropy = ConstantEntropy
    /\ decoderLibraries = <<"FFmpeg">>

SpecLaunch ==
    /\ ResumeInit /\ [][NextSession]_vars
    /\ WF_lifeVars(MainThread(Observed))
    /\ WF_lifeVars(CleanupTask(Observed))
    /\ WF_lifeVars(dtor_release(Observed))

\* Session::initialize over the launches it may be given.  Either the video
\* side varies (codec and decoder preference, size, host, application,
\* hardware decoding) with the rest quiet or raising every warning it can, or
\* the rest varies (frame rate, V-sync, audio layout, audio device, gamepads)
\* around an ordinary video side.
ConfigInit ==
    /\ Constructed
    /\ OrdinaryStream
    /\ quitAppAfter = FALSE
    /\ \/ /\ \E vcc \in VideoCodecConfigs, vds \in VideoDecoderSelections,
                 width \in Widths, noisy \in BOOLEAN :
                /\ m_Preferences = VideoPreferences(vcc, vds, width,
                        IF noisy THEN NoisyPreferences ELSE QuietPreferences)
                /\ hwDecode \in HwDecodeChoices(width)
                /\ audioDevice = IF noisy THEN {"AUDIO_CONFIGURATION_STEREO"}
                                 ELSE AudioConfigurations
                /\ unmappedGamepads = noisy
          /\ m_Computer \in [gfeVersion : GfeVersions, maxLumaPixelsHEVC : {0, 1},
                              serverCodecModeSupport : CodecModeMasks,
                              currentGameId : {0}]
          /\ m_App \in [hdrSupported : BOOLEAN, id : {1}]
       \/ /\ \E vcc \in VideoCodecConfigs, vds \in VideoDecoderSelections,
                 other \in OtherPreferences :
                m_Preferences = VideoPreferences(vcc, vds, 1920, other)
          /\ m_Computer = ModernHost
          /\ m_App = [hdrSupported |-> TRUE, id |-> 1]
          /\ hwDecode = VideoFormats \X {1920}
          /\ audioDevice \in SUBSET AudioConfigurations
          /\ unmappedGamepads \in BOOLEAN
    /\ entropy = ConstantEntropy
    /\ decoderLibraries = <<"FFmpeg">>

\* initialize() and, when it succeeds, exec() as far as the call of
\* LiStartConnection
NextConfig ==
    \/ initialize(Observed)
    \/ exec_acquire(Observed)
    \/ exec_setActive(Observed)
    \/ exec_launch(Observed)
    \/ exec_LiStartConnection(Observed)

SpecConfig == ConfigInit /\ [][NextConfig]_vars

\* Every session built from the same preferences, host and application,
\* the random generator delivering any values
BuildInit ==
    /\ Constructed
    /\ OrdinaryStream
    /\ quitAppAfter = FALSE
    /\ \E vcc \in VideoCodecConfigs, vds \in {"VDS_AUTO", "VDS_FORCE_HARDWARE"},
          width \in Widths, noisy \in BOOLEAN :
        /\ m_Preferences = VideoPreferences(vcc, vds, width,
                IF noisy THEN NoisyPreferences ELSE QuietPreferences)
        /\ hwDecode \in {{}, VideoFormats \X {1920}}
        /\ audioDevice = IF noisy THEN {"AUDIO_CONFIGURATION_STEREO"}
                         ELSE AudioConfigurations
        /\ unmappedGamepads = noisy
    /\ m_Computer \in [gfeVersion : {<<"2", ".", "1", "1">>, <<"3", ".", "2", "0">>},
                        maxLumaPixelsHEVC : {1}, serverCodecModeSupport : {1023},
                        currentGameId : {0}]
    /\ m_App = [hdrSupported |-> TRUE, id |-> 1]
    /\ entropy \in [1..MaxRandCalls -> RandomValues]
    /\ decoderLibraries = <<"FFmpeg">>

NextBuild == \E s \in Sessions : initialize(s)

SpecBuild == BuildInit /\ [][NextBuild]_vars

\* One session with the thread that submits decode units
NextDecoder ==
    \/ MainThread(Observed)
    \/ CleanupTask(Observed)
    \/ SubmitThread(Observed)
    \/ WindowSystem

SpecDecoder == LifeInit /\ [][NextDecoder]_vars

\* Every decoder object of one session: the test decoders initialize()
\* makes, then the decoders of the stream with the thread that submits to
\* them, in a build with either decoder library or both
OwnershipInit ==
    /\ Constructed
    /\ OrdinaryStream
    /\ quitAppAfter = FALSE
    /\ m_Preferences = VideoPreferences("VCC_AUTO", "VDS_AUTO", 1920, QuietPreferences)
    /\ m_Computer = ModernHost
    /\ m_App = [hdrSupported |-> TRUE, id |-> 1]
    /\ hwDecode = VideoFormats \X {1920}
    /\ audioDevice = AudioConfigurations
    /\ unmappedGamepads = FALSE
    /\ entropy = ConstantEntropy
    /\ decoderLibraries \in {<<"SLVideo">>, <<"FFmpeg">>, <<"SLVideo", "FFmpeg">>}

NextOwnership ==
    \/ probe_call(Observed)
    \/ chooseDecoder_new
    \/ chooseDecoder_initialize
    \/ probe_delete
    \/ probePc = "idle" /\ NextDecoder

SpecOwnership == OwnershipInit /\ [][NextOwnership]_vars

\* One session with the thread that delivers rumble
NextRumble ==
    \/ MainThread(Observed)
    \/ CleanupTask(Observed)
    \/ RumbleThread(Observed)
    \/ WindowSystem

SpecRumble == LifeInit /\ [][NextRumble]_vars

\* One session whose stream ends by a quit event, with the thread that
\* delivers connection status updates and the gamepads entering and leaving
\* mouse mode, for either setting of the warnings and a bitrate at and
\* above the limit of line 128
OverlayInit ==
    /\ Constructed
    /\ connectionWarnings \in BOOLEAN
    /\ bitrateKbps \in {5000, 5001}
    /\ negotiated = VideoDescriptor("VIDEO_FORMAT_H264", 1920, 60)
    /\ OrdinaryWindow
    /\ quitAppAfter = TRUE
    /\ m_Preferences = VideoPreferences("VCC_AUTO", "VDS_AUTO", 1920, QuietPreferences)
    /\ m_Computer = ModernHost
    /\ m_App = [hdrSupported |-> TRUE, id |-> 1]
    /\ hwDecode = VideoFormats \X {1920}
    /\ audioDevice = AudioConfigurations
    /\ unmappedGamepads = FALSE
    /\ entropy = ConstantEntropy
    /\ decoderLibraries = <<"FFmpeg">>

NextOverlay ==
    \/ exec_steps(Observed)
    \/ CleanupTask(Observed)
    \/ sdl_event("QUIT")
    \/ StatusThread
    \/ \E enabled \in BOOLEAN : notifyMouseEmulationMode(Observed, enabled)

SpecOverlay == OverlayInit /\ [][NextOverlay]_vars

\* One session and the window system, for every stream the host may
\* negotiate
SetupInit ==
    /\ Constructed
    /\ connectionWarnings = TRUE
    /\ bitrateKbps = 10000
    /\ negotiated \in VideoDescriptors
    /\ OrdinaryWindow
    /\ quitAppAfter = TRUE
    /\ m_Preferences = VideoPreferences("VCC_AUTO", "VDS_AUTO", 1920, QuietPreferences)
    /\ m_Computer = ModernHost
    /\ m_App = [hdrSupported |-> TRUE, id |-> 1]
    /\ hwDecode = VideoFormats \X {1920}
    /\ audioDevice = AudioConfigurations
    /\ unmappedGamepads = FALSE
    /\ entropy = ConstantEntropy
    /\ decoderLibraries = <<"FFmpeg">>

NextSetup ==
    \/ MainThread(Observed)
    \/ CleanupTask(Observed)
    \/ SubmitThread(Observed)
    \/ WindowSystem

SpecSetup == SetupInit /\ [][NextSetup]_vars

\* The sessions one after the other, each with the swaps its window's
\* size changes bring and with the frame-ready events of its decoders
NextFrames ==
    \/ \E s \in Sessions : MainThread(s)
    \/ \E s \in Sessions : CleanupTask(s)
    \/ \E s \in Sessions : decoder_frameReady(s)
    \/ sdl_event("WINDOW_SIZE_CHANGED")
    \/ sdl_event("QUIT")

SpecFrames == LifeInit /\ [][NextFrames]_vars

\* One stream in each window mode, with every kind of event the loop
\* tells apart: window events, device resets, keys, and the window dragged
\* to the other display.  The window system has at most MaxPending events
\* queued at a time.
WindowInit ==
    /\ Constructed
    /\ connectionWarnings = TRUE
    /\ bitrateKbps = 10000
    /\ negotiated = VideoDescriptor("VIDEO_FORMAT_H264", 1920, 60)
    /\ windowMode \in WindowModes
    /\ framePacing = TRUE
    /\ displayHz = 60
    /\ quitAppAfter = TRUE
    /\ m_Preferences = VideoPreferences("VCC_AUTO", "VDS_AUTO", 1920, QuietPreferences)
    /\ m_Computer = ModernHost
    /\ m_App = [hdrSupported |-> TRUE, id |-> 1]
    /\ hwDecode = VideoFormats \X {1920}
    /\ audioDevice = AudioConfigurations
    /\ unmappedGamepads = FALSE
    /\ entropy = ConstantEntropy
    /\ decoderLibraries = <<"FFmpeg">>

NextWindow ==
    \/ MainThread(Observed)
    \/ CleanupTask(Observed)
    \/ \E type \in WindowEvents \cup ResetEvents \cup {"KEYDOWN", "QUIT"} :
          Len(events) < MaxPending /\ sdl_event(type)
    \/ \E d \in Displays : sdl_moveWindow(d)

SpecWindow == WindowInit /\ [][NextWindow]_vars

\* One stream for every V-sync and frame pacing preference, at 60 and
\* 120 frames a second, on displays around both limits
DisplayRates == {54, 55, 60, 114, 115, 144}
PacingInit ==
    /\ Constructed
    /\ connectionWarnings = TRUE
    /\ bitrateKbps = 10000
    /\ negotiated = VideoDescriptor("VIDEO_FORMAT_H264", 1920, 60)
    /\ windowMode = "WM_WINDOWED"
    /\ framePacing \in BOOLEAN
    /\ displayHz \in DisplayRates
    /\ quitAppAfter = TRUE
    /\ \E fps \in {60, 120}, vsync \in BOOLEAN :
          m_Preferences = VideoPreferences("VCC_AUTO", "VDS_AUTO", 1920,
                              [QuietPreferences EXCEPT !.fps = fps, !.enableVsync = vsync])
    /\ m_Computer = ModernHost
    /\ m_App = [hdrSupported |-> TRUE, id |-> 1]
    /\ hwDecode = VideoFormats \X {1920}
    /\ audioDevice = AudioConfigurations
    /\ unmappedGamepads = FALSE
    /\ entropy = ConstantEntropy
    /\ decoderLibraries = <<"FFmpeg">>

NextPacing ==
    \/ initialize(Observed)
    \/ exec_streaming(Observed) \/ exec_swap(Observed)
    \/ CleanupTask(Observed)
    \/ sdl_event("WINDOW_SIZE_CHANGED")
    \/ sdl_event("QUIT")

SpecPacing == PacingInit /\ [][NextPacing]_vars

(* ------------------------------ properties ------------------------------ *)
\* exec() of s is past its acquire() and has not returned
InExec(s) == pc[s] \notin {"idle", "wait", "returned"}
\* the cleanup task of s exists and its destructor has not finished
TaskPending(s) == task[s] \notin {"none", "done"}
\* s holds the admission token it took in exec()
Admitted(s) == InExec(s) \/ TaskPending(s)
\* s is in the Active state: transport started, event loop running
Active(s) == s \in connLive /\ pc[s] \in {"loop", "swap_lock", "swap_delete", "swap_flush",
                                          "swap_choose", "swap_idr", "swap_unlock"}

\* C1: at most one session at a time is between its acquire() in exec() and
\* the completion of its cleanup task, hence at most one session is Active.
C1_OneSessionAdmitted ==
    /\ \A s, u \in Sessions : Admitted(s) /\ Admitted(u) => s = u
    /\ \A s, u \in Sessions : Active(s) /\ Active(u) => s = u

\* a session is Active while another one waits in exec() for the token
C1_Witness == \E s, u \in Sessions : s # u /\ Active(s) /\ pc[u] = "wait"

\* C2: while a session is inside LiStartConnection or its connection is
\* live, no other session has a live connection, is starting one, or has a
\* cleanup task that has not yet stopped the transport and released the
\* semaphore.
C2_TransportsNeverOverlap ==
    \A s, u \in Sessions :
        s # u /\ (pc[s] = "connecting" \/ s \in connLive)
            => /\ u \notin connLive
               /\ pc[u] # "connecting"
               /\ ~TaskPending(u)

\* the observed session streamed and its cleanup has completed; a second
\* session is now inside LiStartConnection
C2_Witness ==
    /\ hist.started /\ task[Observed] = "done"
    /\ \E u \in Sessions : u # Observed /\ pc[u] = "connecting"

\* C3: an exec() that acquired the semaphore has started exactly one cleanup
\* task when it returns, whichever exit it took; one that did not acquire
\* has started none; the token is back once the task is done, and the
\* semaphore never holds more than one token.
C3_OneCleanupTaskPerAcquire ==
    /\ hist.scheduled <= 1
    /\ hist.scheduled = 1 => hist.acquired
    /\ pc[Observed] = "returned" /\ hist.acquired => hist.scheduled = 1
    /\ s_ActiveSessionSemaphore <= 1
    /\ task[Observed] = "done" /\ dtor[Observed] # "acquired"
           => s_ActiveSessionSemaphore = 1

\* the exec() that left through the failed decoder swap has had its cleanup
\* task run to completion
C3_Witness ==
    /\ hist.acquired /\ hist.exit = "swap"
    /\ task[Observed] = "done" /\ s_ActiveSessionSemaphore = 1

\* the semaphore gains a token
Released == s_ActiveSessionSemaphore' > s_ActiveSessionSemaphore
\* the semaphore loses a token
Acquired == s_ActiveSessionSemaphore' < s_ActiveSessionSemaphore
ByTaskCompletion == \E s \in Sessions : task[s] = "release" /\ task'[s] = "done"
BySessionDestructor == \E s \in Sessions : dtor[s] = "acquired" /\ dtor'[s] = "destroyed"
InExecAcquire == \E s \in Sessions : pc[s] = "wait" /\ pc'[s] = "active"
InSessionDestructor == \E s \in Sessions : dtor[s] = "alive" /\ dtor'[s] = "acquired"

\* C4 as stated: the semaphore is released only by the completion of a
\* cleanup task, and a session waits on it only in exec().
C4_OnlyTaskReleases ==
    [][(Released => ByTaskCompletion) /\ (Acquired => InExecAcquire)]_lifeVars

\* C4 as amended: every release is the completion of a cleanup task or the
\* release in ~Session of the token that destructor has just taken itself;
\* every wait is in exec() or in ~Session; so the token taken by exec() is
\* returned by the cleanup task alone, and the tokens are conserved.
C4_TaskOrDestructorReleases ==
    /\ [](s_ActiveSessionSemaphore
            + Cardinality({s \in Sessions : Admitted(s)})
            + Cardinality({s \in Sessions : dtor[s] = "acquired"}) = 1)
    /\ [][(Released => ByTaskCompletion \/ BySessionDestructor)
          /\ (Acquired => InExecAcquire \/ InSessionDestructor)]_lifeVars

\* a session whose cleanup task completed has been destroyed: its destructor
\* took the token and gave it back
C4_Witness ==
    \E s \in Sessions :
        /\ dtor[s] = "destroyed" /\ task[s] = "done"
        /\ s_ActiveSessionSemaphore = 1

\* the main thread is inside a critical section of m_DecoderLock
MainHoldsDecoderLock(s) ==
    pc[s] \in {"swap_delete", "swap_flush", "swap_choose", "swap_idr", "swap_unlock",
               "decoder_delete", "decoder_null", "decoder_unlock"}
\* the submitting thread is inside its critical section of m_DecoderLock
SubmitHoldsDecoderLock == subPc \in {"locked", "forward"}
\* the submitting thread has taken a step
SubmitStepped == subPc' # subPc \/ subRet' # subRet

\* C5: drSubmitDecodeUnit never forwards a unit to a decoder that the main
\* thread has destroyed or is destroying, in the swap or in the teardown; a
\* submit that arrives while the main thread holds m_DecoderLock returns
\* DR_OK and leaves the decoder, the lock and m_NeedsIdr untouched.
C5_SubmitNeverUsesDestroyedDecoder ==
    /\ []("drSubmitDecodeUnit" \notin fault)
    /\ [](subPc = "forward" => subDecoder \in liveDecoders)
    /\ [](subRet.branch = "lock_busy" => subRet.value = "DR_OK")
    /\ [][MainHoldsDecoderLock(Observed) /\ subPc = "idle" /\ SubmitStepped
            => /\ subRet' = [value |-> "DR_OK", branch |-> "lock_busy"]
               /\ subPc' = "idle"
               /\ UNCHANGED decVars]_lifeVars

\* a submit has been discarded while the decoder swap holds the lock and
\* m_VideoDecoder still points at the decoder it has just deleted
C5_Witness ==
    /\ pc[Observed] = "swap_flush"
    /\ m_VideoDecoder[Observed] # NoDecoder
    /\ m_VideoDecoder[Observed] \notin liveDecoders
    /\ subRet.branch = "lock_busy"

\* C6: at most one thread is inside a critical section of m_DecoderLock and
\* the lock word is set exactly then; the callback thread never waits for
\* the lock (its drSubmitDecodeUnit can always take its step at once); the
\* main thread does wait, in the swap and in the teardown.
C6_DecoderLockExclusive ==
    /\ ~(MainHoldsDecoderLock(Observed) /\ SubmitHoldsDecoderLock)
    /\ m_DecoderLock[Observed] = 1
           <=> (MainHoldsDecoderLock(Observed) \/ SubmitHoldsDecoderLock)
    /\ Delivering /\ s_ActiveSession = Observed /\ subPc = "idle"
           => ENABLED drSubmitDecodeUnit(Observed)
    /\ pc[Observed] \in {"swap_lock", "decoder_lock"} /\ SubmitHoldsDecoderLock
           => ~ENABLED MainThread(Observed)

\* the main thread waits at the swap for the lock the submitting thread
\* holds while it forwards a unit
C6_Witness == pc[Observed] = "swap_lock" /\ subPc = "forward"

\* C7: clRumble never calls into an input handler that exec() has deleted,
\* on the normal teardown and on the window-creation-failure exit.
C7_RumbleNeverUsesDestroyedHandler == "clRumble" \notin fault

\* C8: once connection-terminated ran with a non-zero code, the cleanup task
\* emits no quitStarting and issues no quitApp.
C8_NonZeroTerminationNeverQuitsApp ==
    hist.termNonZero => sig.quitStarting = 0 /\ sig.quitApp = 0

\* exec() took the exit of a failing initialize()
InitializeFailed == hist.exit \in {"sdl_fail", "window_fail", "validate_fail"}
\* exec() has returned and its cleanup task, if it started one, is done
ExecOver == pc[Observed] = "returned" /\ ~TaskPending(Observed)
\* the stream is running: exec() is in its event loop
Streaming == pc[Observed] \in {"loop", "swap_lock", "swap_delete", "swap_flush",
                               "swap_choose", "swap_idr", "swap_unlock"}

\* C9 as stated: whenever sessionFinished has been emitted, it came from the
\* cleanup task (one was started and has run its notification).
C9_FinishedOnlyViaCleanupTask ==
    sig.sessionFinished > 0 => task[Observed] \notin {"none", "queued"}

\* C9 as amended: sessionFinished is emitted exactly once per exec(): by
\* exec() itself, with no cleanup task, when initialize() fails, and by the
\* cleanup task on every later exit; never twice, and once exec() is over
\* never zero times.  Every exec() that is not kept in its event loop gets
\* there.
C9_ExactlyOneSessionFinished ==
    /\ [](sig.sessionFinished <= 1)
    /\ [](ExecOver => sig.sessionFinished = 1)
    /\ [](InitializeFailed <=> pc[Observed] = "returned" /\ task[Observed] = "none")
    /\ [](sig.sessionFinished = 1 /\ ~InitializeFailed
             => task[Observed] \notin {"none", "queued"})
    /\ (pc[Observed] # "idle" ~> (Streaming \/ sig.sessionFinished = 1))

\* the cleanup task quit the remote app and then emitted sessionFinished
C9_Witness ==
    /\ ExecOver /\ hist.exit = "quit"
    /\ sig.quitApp = 1 /\ sig.sessionFinished = 1

\* initialize() of the observed session got as far as the end of validateLaunch
Validated == pc[Observed] # "idle" /\ hist.exit \notin {"sdl_fail", "window_fail"}
\* the four criteria of HDR
HdrMode == m_Preferences.videoCodecConfig = "VCC_FORCE_HEVC_HDR"
AppHdr == m_App.hdrSupported
HostHdr == (m_Computer.serverCodecModeSupport \div 512) % 2 = 1
Main10Probe == <<"VIDEO_FORMAT_H265_MAIN10", m_Preferences.width>> \in hwDecode
\* how many of the four hold
HdrCriteriaMet ==
    Cardinality({i \in 1..4 : <<HdrMode, AppHdr, HostHdr, Main10Probe>>[i]})
\* the warnings about HDR among those emitted
HdrWarnings ==
    SelectSeq(warnings[Observed], LAMBDA w : w \in {"app doesn't support HDR10",
                                          "host GPU doesn't support HDR",
                                          "PC GPU doesn't support HEVC Main10"})

\* C10 as stated: enableHdr is true exactly when the four criteria hold, and
\* when exactly one of the four fails enableHdr is false and exactly one
\* warning about HDR has been emitted.
C10_OneWarningPerFailedCriterion ==
    Validated =>
        /\ m_StreamConfig[Observed].enableHdr <=> HdrCriteriaMet = 4
        /\ HdrCriteriaMet = 3 => ~m_StreamConfig[Observed].enableHdr /\ Len(HdrWarnings) = 1

\* C10 as amended: enableHdr is true exactly when the four criteria hold.
\* Under the HDR-forcing codec mode the checks run in the order application,
\* host GPU, Main10 probe, and the first one that fails emits its warning and
\* no other HDR warning follows; so one criterion of these three failing
\* gives exactly the warning of that criterion.  Under any other codec mode
\* enableHdr is false and no HDR warning is emitted at all.
C10_HdrIffAllCriteria ==
    Validated =>
        /\ m_StreamConfig[Observed].enableHdr <=> (HdrMode /\ AppHdr /\ HostHdr /\ Main10Probe)
        /\ HdrWarnings =
             IF ~HdrMode THEN <<>>
             ELSE IF ~AppHdr THEN <<"app doesn't support HDR10">>
             ELSE IF ~HostHdr THEN <<"host GPU doesn't support HDR">>
             ELSE IF ~Main10Probe THEN <<"PC GPU doesn't support HEVC Main10">>
             ELSE <<>>

\* forced HEVC+HDR for an HDR application on a PC that decodes Main10,
\* against a host whose mask has bits around 0x200 but not 0x200: HDR is off
\* and the one HDR warning is the host GPU's
C10_Witness ==
    /\ Validated
    /\ HdrMode /\ AppHdr /\ Main10Probe
    /\ m_Computer.serverCodecModeSupport = 1535
    /\ ~m_StreamConfig[Observed].enableHdr
    /\ HdrWarnings = <<"host GPU doesn't support HDR">>

(* ---------------- forced hardware decoding (lines 596-614) -------------- *)
\* the format the stream will have after validateLaunch's downgrades
FinalVideoFormat ==
    IF m_StreamConfig[Observed].supportsHevc THEN "VIDEO_FORMAT_H265" ELSE "VIDEO_FORMAT_H264"
\* hardware decoding is forced and the probe at the final format fails
ForcedHardwareUnavailable ==
    /\ m_Preferences.videoDecoderSelection = "VDS_FORCE_HARDWARE"
    /\ <<FinalVideoFormat, m_StreamConfig[Observed].width>> \notin hwDecode
\* the texts emitLaunchWarning is called with in validateLaunch
LaunchWarnings ==
    {"force software decoding", "unsupported FPS", "V-sync will be disabled",
     "software decoding due to forced HEVC", "PC GPU doesn't support HEVC",
     "host GPU doesn't support HEVC", "app doesn't support HDR10",
     "host GPU doesn't support HDR", "PC GPU doesn't support HEVC Main10",
     "GFE 3.0 required for 4K", "5.1 surround not supported",
     "failed to open audio device", "gamepad has no mapping"}
\* exec() has not gone past its call of initialize()
NeverAdmitted ==
    /\ pc[Observed] = "returned"
    /\ ~hist.acquired
    /\ s_ActiveSessionSemaphore = 1
    /\ s_ActiveSession = NoSession
    /\ m_InputHandler[Observed] = "null"
    /\ ~hist.started /\ connLive = {}
    /\ task[Observed] = "none"

\* C11: when hardware decoding is forced and the probe at the final format
\* (H.265 if supportsHevc is still set, else H.264, at the final width) fails,
\* validateLaunch fails with exactly one launch error, whose text depends on
\* whether the codec choice was automatic, it is never reported as a warning,
\* and the session neither takes the admission token nor starts the transport;
\* in every other case validateLaunch succeeds without an error.
C11_ForcedHardwareFailsLaunch ==
    Validated =>
        /\ \A i \in 1..Len(warnings[Observed]) : warnings[Observed][i] \in LaunchWarnings
        /\ IF ForcedHardwareUnavailable
           THEN /\ hist.exit = "validate_fail"
                /\ launchErrors[Observed] =
                     <<IF m_Preferences.videoCodecConfig = "VCC_AUTO"
                       THEN "force hardware decoding cannot be satisfied"
                       ELSE "codec selection and force hardware decoding not compatible">>
                /\ sig.displayLaunchError = 1
                /\ NeverAdmitted
           ELSE /\ hist.exit # "validate_fail"
                /\ launchErrors[Observed] = <<>>

\* a 4K HEVC launch with forced hardware decoding on a 2.x host: the stream
\* was downgraded to 1080p H.264, the probe at that format failed
C11_Witness ==
    /\ Validated /\ ForcedHardwareUnavailable
    /\ m_Preferences.videoCodecConfig = "VCC_AUTO"
    /\ m_Preferences.width = 3840 /\ m_StreamConfig[Observed].width = 1920
    /\ launchErrors[Observed] = <<"force hardware decoding cannot be satisfied">>
    /\ pc[Observed] = "returned"

(* --------------------------- 4K (lines 563-571) ------------------------- *)
\* the number a version string begins with, 0 when it begins with none
Digits == <<"0", "1", "2", "3", "4", "5", "6", "7", "8", "9">>
RECURSIVE MajorVersion(_, _)
MajorVersion(str, acc) ==
    IF str = <<>> \/ \A d \in 1..10 : Digits[d] # Head(str)
    THEN acc
    ELSE MajorVersion(Tail(str),
                      10 * acc + (CHOOSE d \in 1..10 : Digits[d] = Head(str)) - 1)
\* the host reports no GFE version or a 2.x one
Gfe2OrNone ==
    \/ m_Computer.gfeVersion = <<>>
    \/ MajorVersion(m_Computer.gfeVersion, 0) = 2
\* how many times the 4K warning was emitted
Warnings4K ==
    Cardinality({i \in 1..Len(warnings[Observed]) : warnings[Observed][i] = "GFE 3.0 required for 4K"})

\* C12: a stream requested 3840 wide or more on a host whose GFE version is
\* empty or 2.x is downgraded to 1920x1080 with exactly one 4K warning; on a
\* host reporting 3.x or later, and for any narrower stream, the size stays as
\* requested and no 4K warning is emitted.
C12_4KNeedsGfe3 ==
    Validated =>
        /\ m_Preferences.width >= 3840 /\ Gfe2OrNone
            => /\ m_StreamConfig[Observed].width = 1920 /\ m_StreamConfig[Observed].height = 1080
               /\ Warnings4K = 1
        /\ MajorVersion(m_Computer.gfeVersion, 0) >= 3 \/ m_Preferences.width < 3840
            => /\ m_StreamConfig[Observed].width = m_Preferences.width
               /\ m_StreamConfig[Observed].height = m_Preferences.height
               /\ Warnings4K = 0

\* a 4K request on a 2.11 host came out as 1080p with the warning
C12_Witness ==
    /\ Validated
    /\ m_Preferences.width = 3840
    /\ m_Computer.gfeVersion = <<"2", ".", "1", "1">>
    /\ m_StreamConfig[Observed].width = 1920 /\ m_StreamConfig[Observed].height = 1080
    /\ Warnings4K = 1

(* ------------------- failures before the stream starts ------------------ *)
\* exec() left on a failure before the event loop: SDL_InitSubSystem, the
\* test window, validateLaunch, launchApp/resumeApp, LiStartConnection
FatalBeforeStart ==
    hist.exit \in {"sdl_fail", "window_fail", "validate_fail", "launch", "connect"}
\* the error notifications shown to the user
ErrorsShown == sig.displayLaunchError + sig.stageFailed

\* C13: every failure before the stream starts shows the user exactly one
\* error (a displayLaunchError or a stageFailed) and the session never enters
\* its event loop.
C13_FatalBeforeStartShowsOneError ==
    FatalBeforeStart => ErrorsShown = 1 /\ ~hist.looped

(* ------------- the stream configuration, built more than once ----------- *)
\* initialize() of s got as far as the configuration
Built(s) == m_StreamConfig[s] # NoStreamConfig
\* the fields of a stream configuration other than the key and the IV
PublicFields(config) ==
    [f \in DOMAIN config \ {"remoteInputAesKey", "remoteInputAesIv"} |-> config[f]]
\* s took the RAND_bytes calls from..from+1 for its key and IV
DrewAt(s, from) ==
    /\ m_StreamConfig[s].remoteInputAesKey = entropy[from]
    /\ m_StreamConfig[s].remoteInputAesIv = <<entropy[from + 1], 0>>

SubmitLockedStep == subPc = "locked" /\ subPc' # "locked"
\* that step returned `value` to the transport without calling the decoder
SubmitReturns(value) == subPc' = "idle" /\ subRet'.value = value
\* that step goes on to call submitDecodeUnit of the installed decoder
SubmitForwards ==
    /\ subPc' = "forward"
    /\ subDecoder' = m_VideoDecoder[Observed]
    /\ subDecoder' \in liveDecoders

\* C15: the first submit that takes the lock after a decoder was created and
\* m_NeedsIdr set returns DR_NEED_IDR, clears the flag and does not forward;
\* every later one, as long as that decoder is installed, forwards to it, and
\* the value it returns is the one returned to the transport; a submit that
\* finds the flag clear and no decoder returns DR_OK.
C15_FirstSubmitAsksForIdr ==
    [][/\ SubmitLockedStep /\ hist.idr \in {"pending", "owed"}
            => /\ SubmitReturns("DR_NEED_IDR")
               /\ ~m_NeedsIdr'[Observed]
               /\ subDecoder' = NoDecoder
       /\ SubmitLockedStep /\ hist.idr = "served" => SubmitForwards
       /\ SubmitLockedStep /\ ~m_NeedsIdr[Observed]
                           /\ m_VideoDecoder[Observed] = NoDecoder
            => SubmitReturns("DR_OK")
       /\ subPc = "forward" /\ subPc' = "idle"
            => /\ subRet'.branch = "forwarded"
               /\ hist.idr = "served"
               /\ UNCHANGED <<m_NeedsIdr, m_VideoDecoder>>]_lifeVars

\* a decoder was created, the first submit was answered with DR_NEED_IDR and
\* a later one was forwarded
C15_Witness ==
    /\ hist.idr = "served"
    /\ subRet.branch = "forwarded"
    /\ subPc = "idle"
    /\ m_VideoDecoder[Observed] \in liveDecoders

(* ------------------------- a swap that fails ---------------------------- *)
\* the step of the swap in which chooseDecoder returned false (lines 1200-1204)
SwapFailedStep == pc[Observed] = "swap_choose" /\ pc'[Observed] = "cleanup"
\* exec() left its loop because a swap found no decoder
SwapFailed == hist.exit = "swap"

\* C16: a swap in which no decoder initializes emits exactly one
\* displayLaunchError, releases m_DecoderLock, leaves m_VideoDecoder null and
\* goes to the teardown; from then on the loop dispatches no event, the
\* pointer stays null, and the teardown is able to take m_DecoderLock again
\* whenever the submitting thread is not inside its critical section.
C16_FailedSwapLeavesLoop ==
    /\ [][SwapFailedStep
            => /\ sig'.displayLaunchError = sig.displayLaunchError + 1
               /\ sig'.stageFailed = sig.stageFailed
               /\ m_DecoderLock'[Observed] = 0
               /\ m_VideoDecoder'[Observed] = NoDecoder
               /\ liveDecoders' = {}
               /\ SwapFailed']_lifeVars
    /\ [](SwapFailed
            => /\ ~Streaming
               /\ m_VideoDecoder[Observed] = NoDecoder
               /\ sig.displayLaunchError = 1
               /\ ~MainHoldsDecoderLock(Observed) \/ pc[Observed] \in
                      {"decoder_delete", "decoder_null", "decoder_unlock"})
    /\ [](SwapFailed /\ pc[Observed] = "decoder_lock" /\ ~SubmitHoldsDecoderLock
            => ENABLED exec_decoder_lock(Observed))
    /\ [][SwapFailed => events' = events \/ Len(events') > Len(events)
                                        \/ pc[Observed] = "dispatch"]_lifeVars

\* after a failed swap the teardown holds the lock again, with an event
\* still in the queue that the loop never dispatched
C16_Witness ==
    /\ SwapFailed
    /\ pc[Observed] = "decoder_delete"
    /\ m_DecoderLock[Observed] = 1
    /\ events # <<>>

(* ----------------------- ownership of the decoders ---------------------- *)
\* the pointers through which a decoder is owned: the session's and the
\* local one of a probe
DecoderOwners == {m_VideoDecoder[Observed], probeDecoder}

\* C17: whenever m_DecoderLock is free, m_VideoDecoder is null or points at a
\* live decoder; no decoder is destroyed twice; and none leaks: every live
\* decoder is the one the session or the running probe points at, none is
\* left when a probe has returned or when exec() has returned.
C17_DecodersOwnedAndDestroyedOnce ==
    /\ m_DecoderLock[Observed] = 0
            => m_VideoDecoder[Observed] \in liveDecoders \cup {NoDecoder}
    /\ "double delete" \notin fault
    /\ liveDecoders \subseteq DecoderOwners
    /\ Cardinality(liveDecoders) <= 1
    /\ probePc = "idle" /\ pc[Observed] = "idle" => liveDecoders = {}
    /\ probePc = "chosen" => probeDecoder \in liveDecoders
    /\ pc[Observed] = "returned" => liveDecoders = {} /\ m_VideoDecoder[Observed] = NoDecoder

\* probes made and destroyed their decoders, the stream had a decoder that a
\* swap replaced, and exec() has returned with nothing left
C17_Witness ==
    /\ hist.probed
    /\ decoderLibraries = <<"SLVideo", "FFmpeg">>
    /\ hist.idr = "none" /\ subRet.branch = "forwarded"
    /\ pc[Observed] = "returned"
    /\ liveDecoders = {}

(* --------------------- termination ends the session --------------------- *)
\* a step appends an SDL_QUIT event to the queue
QuitPosted == events' = Append(events, "QUIT")
\* a step in which clConnectionTerminated ran for the first time with a zero
\* code, or with a non-zero one
FirstTerminationStep ==
    \/ hist'.termZero /\ ~hist.termZero
    \/ hist'.termNonZero /\ ~hist.termNonZero
\* a step of a thread other than the main one in which an error is shown
ErrorFromCallback ==
    /\ sig'.displayLaunchError = sig.displayLaunchError + 1
    /\ pc' = pc
\* the stream is to end: the transport has reported the termination, or an
\* SDL_QUIT is in the queue
QuitRequested ==
    \/ hist.termZero \/ hist.termNonZero
    \/ \E i \in 1..Len(events) : events[i] = "QUIT"
\* exec() went through DispatchDeferredCleanup and started the cleanup task
LeftThroughTeardown ==
    /\ hist.exit \in {"quit", "swap"}
    /\ hist.scheduled = 1
    /\ pc[Observed] = "returned"
    /\ m_InputHandler[Observed] = "null" /\ m_VideoDecoder[Observed] = NoDecoder

\* C18: clConnectionTerminated posts SDL_QUIT on every call, and shows the
\* error exactly when its code is non-zero; once the stream is in its event
\* loop, a reported termination (any code) or a queued SDL_QUIT leads to the
\* loop being left through the teardown and the cleanup task being started,
\* given that the main thread keeps running.
C18_TerminationLeadsToTeardown ==
    /\ [][FirstTerminationStep
            => /\ QuitPosted
               /\ sig'.displayLaunchError - sig.displayLaunchError
                      = IF hist'.termNonZero /\ ~hist.termNonZero THEN 1 ELSE 0]_lifeVars
    /\ [][ErrorFromCallback => QuitPosted /\ hist'.termNonZero]_lifeVars
    /\ ((Streaming /\ QuitRequested) ~> LeftThroughTeardown)

\* the transport reported a termination with code 0 during the stream; the
\* loop was left through the teardown and the task started, with no error
C18_Witness ==
    /\ hist.termZero /\ ~hist.termNonZero
    /\ hist.looped
    /\ LeftThroughTeardown
    /\ sig.displayLaunchError = 0

(* ------------------- the flushes of the decoder swap -------------------- *)
\* exec() is between the lock and the unlock of a decoder swap, or waits
\* for the lock
SwapInProgress ==
    pc[Observed] \in {"swap_lock", "swap_delete", "swap_flush", "swap_choose",
                      "swap_idr", "swap_unlock"}
\* the events the swap flushes: SDL_WINDOWEVENT and the render resets
FlushedBySwap == WindowEvents \cup ResetEvents
\* the events of a queue that the swap has no business with, in order
KeptBySwap(q) == SelectSeq(q, LAMBDA e : e \notin FlushedBySwap)
\* the step of the swap that flushes (lines 1163-1177)
SwapFlushStep == pc[Observed] = "swap_flush" /\ pc'[Observed] = "swap_choose"

\* C19: while a decoder swap is in progress no SDL_QUIT leaves the queue:
\* the flushing step removes every queued window and reset event and nothing
\* else, and every other step of that time leaves the queued quits in place
\* or adds one.
C19_SwapKeepsQuit ==
    /\ [][SwapFlushStep => events' = KeptBySwap(events)]_lifeVars
    /\ [][SwapInProgress
            => \E n \in 0..1 : KeptBySwap(events') =
                   KeptBySwap(events) \o [i \in 1..n |-> "QUIT"]]_lifeVars

\* the swap has flushed a queue in which a termination of the connection had
\* put its SDL_QUIT: the quit is still there
C19_Witness ==
    /\ pc[Observed] = "swap_choose"
    /\ hist.termNonZero
    /\ events = <<"QUIT">>

(* ---------------------- exec() when initialize() fails ------------------ *)
\* the step in which exec() returns because initialize() returned false
InitializeFailedStep == pc[Observed] = "idle" /\ pc'[Observed] = "returned"
\* no exec() is under way
NoExecRunning == \A s \in Sessions : pc[s] \in {"idle", "returned"}

\* C20: when initialize() fails, in SDL_InitSubSystem, at the test window or
\* in validateLaunch, exec() returns in that step holding no reference on the
\* video subsystem, and with the semaphore, s_ActiveSession, the transports,
\* the input handler and the cleanup tasks as they were: nothing is acquired,
\* created, launched, connected or scheduled for the session, then or later.
C20_FailedInitializeTouchesNothing ==
    /\ [][InitializeFailedStep
            => /\ InitializeFailed'
               /\ UNCHANGED <<s_ActiveSessionSemaphore, s_ActiveSession, connLive,
                              task, m_InputHandler, videoRefs>>]_lifeVars
    /\ [](InitializeFailed
            => /\ pc[Observed] = "returned"
               /\ ~hist.acquired /\ ~hist.started /\ hist.scheduled = 0
               /\ task[Observed] = "none"
               /\ m_InputHandler[Observed] = "null"
               /\ Observed \notin connLive
               /\ s_ActiveSession # Observed)
    /\ [](NoExecRunning => videoRefs = 0)

\* validateLaunch failed while another session held the admission token and
\* was s_ActiveSession: both are as they were
C20_Witness ==
    /\ hist.exit = "validate_fail"
    /\ s_ActiveSessionSemaphore = 0
    /\ s_ActiveSession \in Sessions \ {Observed}
    /\ videoRefs = 0

(* ----------- failures of the launch and of the transport start ---------- *)
\* exec() left because resumeApp/launchApp threw (lines 908-922) or
\* LiStartConnection returned non-zero (lines 944-952)
LaunchFailed == hist.exit \in {"launch", "connect"}
\* the step in which exec() takes one of these exits
LaunchFailedStep == ~LaunchFailed /\ LaunchFailed'
\* how many launch or resume requests the session has sent to the host
RemoteStarts == sig.resumeApp + sig.launchApp

\* C21: when resumeApp/launchApp throws or LiStartConnection returns
\* non-zero, exec() returns in that step with the input handler deleted, its
\* reference on the video subsystem given back and one cleanup task started;
\* the session never has a stream window, a decoder or an event loop, and
\* its cleanup task runs to completion and returns the admission token.  The
\* host is sent one request: resumeApp when it reports a running game,
\* launchApp when it reports none.
C21_FailedLaunchSkipsLoop ==
    /\ [][LaunchFailedStep
            => /\ pc'[Observed] = "returned"
               /\ m_InputHandler[Observed] = "live" /\ m_InputHandler'[Observed] = "null"
               /\ videoRefs' = videoRefs - 1
               /\ task[Observed] = "none" /\ task'[Observed] = "queued"
               /\ UNCHANGED <<s_ActiveSessionSemaphore, s_ActiveSession,
                              liveDecoders, m_VideoDecoder>>]_lifeVars
    /\ [](LaunchFailed
            => /\ pc[Observed] = "returned"
               /\ ~hist.window /\ ~hist.decoder /\ ~hist.looped
               /\ liveDecoders = {}
               /\ hist.scheduled = 1
               /\ m_InputHandler[Observed] = "null"
               /\ videoRefs = 0)
    /\ [](RemoteStarts = (IF pc[Observed] \in {"idle", "wait", "active", "launch"}
                             \/ InitializeFailed THEN 0 ELSE 1))
    /\ [](sig.resumeApp = 1 => m_Computer.currentGameId # 0)
    /\ [](sig.launchApp = 1 => m_Computer.currentGameId = 0)
    /\ [](task[Observed] = "done" /\ dtor[Observed] # "acquired"
            => s_ActiveSessionSemaphore = 1)
    /\ (LaunchFailed ~> task[Observed] = "done")

\* the host ran the game, resumeApp went through, LiStartConnection failed;
\* the cleanup task has completed and the token is back
C21_Witness ==
    /\ hist.exit = "connect"
    /\ sig.resumeApp = 1 /\ sig.launchApp = 0
    /\ task[Observed] = "done"
    /\ s_ActiveSessionSemaphore = 1

(* ------------------- failures before the event loop --------------------- *)
\* exec() left before line 1053 with a cleanup task started: the launch
\* threw, the transport did not start, or the stream window was not created
FailedBeforeLoop == hist.exit \in {"launch", "connect", "window"}
\* the cleanup task of the observed session has run its notification
TaskNotified == task[Observed] \notin {"none", "queued"}

\* C22: after a failure before the event loop m_UnexpectedTermination still
\* has the value the constructor gave it, so the cleanup task computes
\* shouldQuit false whatever quitAppAfter says: it emits sessionFinished
\* (once), never quitStarting, and never calls quitApp.
C22_EarlyFailureNeverQuitsApp ==
    FailedBeforeLoop
        => /\ m_UnexpectedTermination[Observed]
           /\ ~shouldQuit[Observed]
           /\ sig.quitStarting = 0 /\ sig.quitApp = 0
           /\ sig.sessionFinished = (IF TaskNotified THEN 1 ELSE 0)

\* with quit-app-after-stream set, the stream window could not be created
\* and the cleanup task has completed
C22_Witness ==
    /\ quitAppAfter
    /\ hist.exit = "window"
    /\ task[Observed] = "done"
    /\ sig.sessionFinished = 1

(* ------------------ the order of the cleanup task's steps --------------- *)
\* 1 when the cleanup task of the observed session decided to quit the
\* remote app, else 0
QuitWarranted == IF shouldQuit[Observed] THEN 1 ELSE 0

\* C23: the cleanup task notifies the UI first (quitStarting when it is to
\* quit the remote app, sessionFinished otherwise), then stops the transport,
\* then, only when it is to quit, calls quitApp and after it emits
\* sessionFinished; s_ActiveSession stays this session's and the token stays
\* taken until run() has ended; the pointer is cleared first and the token
\* released second, so that s_ActiveSession is the session's own from its
\* assignment in exec() on: no other session's task clears it.
C23_CleanupTaskOrder ==
    /\ task[Observed] = "queued"
            => sig.quitStarting = 0 /\ sig.sessionFinished = 0 /\ sig.quitApp = 0
    /\ task[Observed] \in {"queued", "stop"} /\ hist.started => Observed \in connLive
    /\ task[Observed] \in {"stop", "stopping", "quit"}
            => /\ sig.quitStarting = QuitWarranted
               /\ sig.sessionFinished = 1 - QuitWarranted
               /\ sig.quitApp = 0
    /\ task[Observed] \in {"quit", "finish", "caught", "clear", "release", "done"}
            => Observed \notin connLive
    /\ task[Observed] \in {"finish", "caught"}
            => /\ shouldQuit[Observed]
               /\ sig.quitStarting = 1 /\ sig.quitApp = 1 /\ sig.sessionFinished = 0
    /\ task[Observed] \in {"clear", "release", "done"}
            => /\ sig.quitStarting = QuitWarranted
               /\ sig.quitApp = QuitWarranted
               /\ sig.sessionFinished = 1
    /\ \A s \in Sessions :
          /\ task[s] \in {"queued", "stop", "stopping", "quit", "finish", "caught", "clear"}
                => s_ActiveSession = s /\ s_ActiveSessionSemaphore = 0
          /\ task[s] = "release"
                => s_ActiveSession = NoSession /\ s_ActiveSessionSemaphore = 0
          /\ InExec(s) /\ pc[s] # "active" => s_ActiveSession = s

\* the observed session's task quit the remote app and completed; the next
\* session has been admitted and is streaming as s_ActiveSession
C23_Witness ==
    /\ task[Observed] = "done"
    /\ sig.quitStarting = 1 /\ sig.quitApp = 1 /\ sig.sessionFinished = 1
    /\ \E u \in Sessions \ {Observed} : s_ActiveSession = u /\ pc[u] = "loop"

(* ------------------- the best-effort quit that fails -------------------- *)
\* the cleanup task of the observed session takes a step
TaskStep == task[Observed] # "none" /\ task'[Observed] # task[Observed]
\* http.quitApp() threw and the exception was caught (lines 657-659)
QuitAppCaught == task[Observed] = "caught"

\* C24: when quitApp throws either exception the cleanup task goes on: the
\* step after the catch emits sessionFinished, no step of the task shows an
\* error, a task that is done has emitted sessionFinished exactly once, and
\* the task does get to its end, where the admission token is given back.
C24_QuitFailureSwallowed ==
    /\ [][TaskStep => /\ sig'.displayLaunchError = sig.displayLaunchError
                      /\ sig'.stageFailed = sig.stageFailed]_lifeVars
    /\ [][QuitAppCaught /\ TaskStep
            => /\ sig'.sessionFinished = sig.sessionFinished + 1
               /\ task'[Observed] = "clear"]_lifeVars
    /\ [](QuitAppCaught => sig.quitApp = 1 /\ sig.sessionFinished = 0
                               /\ s_ActiveSessionSemaphore = 0)
    /\ [](task[Observed] = "done" => sig.sessionFinished = 1)
    /\ [][task[Observed] = "release" /\ TaskStep
            => s_ActiveSessionSemaphore' = s_ActiveSessionSemaphore + 1]_lifeVars
    /\ (QuitAppCaught ~> task[Observed] = "done")

\* the stream ended by a quit, quitApp was called and threw, nothing was
\* shown to the user
C24_Witness ==
    /\ QuitAppCaught
    /\ hist.exit = "quit"
    /\ sig.quitStarting = 1 /\ sig.quitApp = 1
    /\ sig.displayLaunchError = 0 /\ sig.stageFailed = 0

(* --------------- s_ActiveSession while callbacks may run ---------------- *)
\* the transport of s may call back: s is inside LiStartConnection (the
\* stage callbacks, the video setup) or its connection is live
CallbacksPossible(s) == pc[s] = "connecting" \/ s \in connLive

\* C25: whenever the transport of a session may run a callback,
\* s_ActiveSession is that session: the pointer is assigned before the
\* launch request and LiStartConnection, and a cleanup task that has not yet
\* returned from LiStopConnection has not cleared it.
C25_ActiveSessionDuringCallbacks ==
    \A s \in Sessions :
        /\ CallbacksPossible(s) => s_ActiveSession = s
        /\ pc[s] \in {"launch", "connect", "connecting"} => s_ActiveSession = s
        /\ task[s] \in {"queued", "stop", "stopping"} => s_ActiveSession = s
        /\ s_ActiveSession = NoSession => connLive = {}

\* the termination callback ran, and the cleanup task is inside
\* LiStopConnection with the connection not yet down
C25_Witness ==
    /\ hist.termZero
    /\ task[Observed] = "stopping"
    /\ Observed \in connLive
    /\ s_ActiveSession = Observed

(* --------------------- DispatchDeferredCleanup, in order ---------------- *)
\* the positions of exec() from the label DispatchDeferredCleanup (line 1250)
\* to its return (line 1308), in the order of the code
TeardownOrder ==
    <<"cleanup", "input_lock", "input_delete", "input_null", "input_unlock",
      "decoder_lock", "decoder_delete", "decoder_null", "decoder_unlock",
      "dispatch", "returned">>
\* exec() is in the teardown
InTeardown == \E i \in 1..(Len(TeardownOrder) - 1) : pc[Observed] = TeardownOrder[i]

\* C26: the event loop is left, on a quit event and on a failed swap alike,
\* to the one teardown, whose steps follow each other in the order of the
\* code: capture off and keys raised on a live input handler, the handler
\* deleted and nulled with m_InputHandlerLock held, the decoder deleted and
\* nulled with m_DecoderLock held by the main thread, then the window
\* destroyed, the video subsystem released and the cleanup task started in
\* the step in which exec() returns.  The transport is still up at that
\* return and is brought down by the task alone.
C26_OneTeardownInOrder ==
    /\ [][Streaming /\ ~Streaming' => pc'[Observed] = "cleanup"]_lifeVars
    /\ [][\A i \in 1..(Len(TeardownOrder) - 1) :
            pc[Observed] = TeardownOrder[i] /\ pc'[Observed] # pc[Observed]
                => pc'[Observed] = TeardownOrder[i + 1]]_lifeVars
    /\ [][InTeardown /\ m_InputHandler'[Observed] # m_InputHandler[Observed]
            => /\ m_InputHandlerLock[Observed] = 1
               /\ pc[Observed] \in {"input_delete", "input_null"}]_lifeVars
    /\ [][InTeardown /\ (liveDecoders' # liveDecoders \/ m_VideoDecoder' # m_VideoDecoder)
            => /\ m_DecoderLock[Observed] = 1 /\ ~SubmitHoldsDecoderLock
               /\ pc[Observed] \in {"decoder_delete", "decoder_null"}]_lifeVars
    /\ [](InTeardown
            => /\ HasWindow(Observed) /\ videoRefs = 1
               /\ task[Observed] = "none" /\ Observed \in connLive)
    /\ [](pc[Observed] \in {"cleanup", "input_lock", "input_delete"}
            => m_InputHandler[Observed] = "live")
    /\ [](pc[Observed] \in {"input_unlock", "decoder_lock", "decoder_delete",
                             "decoder_null", "decoder_unlock", "dispatch"}
            => m_InputHandler[Observed] = "null")
    /\ [](pc[Observed] \in {"decoder_unlock", "dispatch"}
            => m_VideoDecoder[Observed] = NoDecoder /\ liveDecoders = {})
    /\ [][pc[Observed] = "dispatch" /\ pc'[Observed] = "returned"
            => /\ ~HasWindow(Observed)' /\ videoRefs' = 0
               /\ task'[Observed] = "queued"
               /\ Observed \in connLive']_lifeVars
    /\ [][(Observed \in connLive) /\ Observed \notin connLive'
            => task[Observed] = "stopping" /\ pc[Observed] = "returned"]_lifeVars

\* exec() has returned through the teardown after a failed swap; its cleanup
\* task has not started to run and the transport is still up
C26_Witness ==
    /\ hist.exit = "swap"
    /\ pc[Observed] = "returned"
    /\ task[Observed] = "queued"
    /\ Observed \in connLive
    /\ videoRefs = 0

(* ------------------------------ ~Session -------------------------------- *)
\* the step in which ~Session takes the token (line 316)
DestructorEnters(s) == dtor[s] = "alive" /\ dtor'[s] = "acquired"
\* the step in which ~Session gives the token back and ends (line 317)
DestructorReturns(s) == dtor[s] = "acquired" /\ dtor'[s] = "destroyed"

\* C27: while a destructor is between its acquire() and its release() no
\* session is admitted and the destroyed session's own cleanup task, if it
\* ever started one, is done; a destroyed session has no cleanup pending;
\* the destructor finds one token, holds it, and puts it back as its last
\* step, so that the count at its return is the count it found.
C27_DestructorWaitsForCleanup ==
    /\ [](\A s \in Sessions :
            dtor[s] = "acquired"
                => /\ \A u \in Sessions : ~Admitted(u)
                   /\ task[s] \in {"none", "done"}
                   /\ s_ActiveSessionSemaphore = 0)
    /\ [](\A s \in Sessions :
            dtor[s] = "destroyed"
                => /\ ~TaskPending(s) /\ ~Admitted(s)
                   /\ s = Observed /\ hist.acquired => task[s] = "done")
    /\ [][\A s \in Sessions :
            /\ DestructorEnters(s)
                => s_ActiveSessionSemaphore = 1 /\ s_ActiveSessionSemaphore' = 0
            /\ DestructorReturns(s)
                => /\ s_ActiveSessionSemaphore = 0 /\ s_ActiveSessionSemaphore' = 1
                   /\ \A u \in Sessions : ~Admitted(u)]_lifeVars

\* the observed session streamed and was destroyed after its cleanup was
\* done; the token its destructor put back has admitted another session
C27_Witness ==
    /\ hist.started
    /\ dtor[Observed] = "destroyed" /\ task[Observed] = "done"
    /\ \E u \in Sessions : u # Observed /\ Admitted(u)

(* ------------------------- the status overlay --------------------------- *)
\* the status thread takes a step of clConnectionStatusUpdate
StatusStep == statPc' # statPc
\* the step leaves text and state of the status overlay as they are
OverlayKept == UNCHANGED <<overlayText, overlayEnabled>>
\* the text line 128 selects
StatusText == IF bitrateKbps > 5000 THEN SlowConnectionText ELSE PoorConnectionText

\* C28: the callback gets to its switch only with the warnings enabled and
\* a mouse-emulation count it read as zero; there CONN_STATUS_POOR writes
\* the reduce-bitrate text when the bitrate is above 5000 and the plain text
\* otherwise, and then makes the overlay visible, and CONN_STATUS_OKAY hides
\* the overlay and keeps its text.  With the warnings disabled, or with a
\* positive count at line 120, it returns and has changed neither text nor
\* visibility.
C28_StatusUpdateEffect ==
    [][StatusStep =>
        /\ statPc \in {"idle", "warnings", "refcount"} => OverlayKept
        /\ statPc = "warnings" /\ ~connectionWarnings => statPc' = "idle"
        /\ statPc = "refcount" /\ m_MouseEmulationRefCount[Observed] > 0
               => statPc' = "idle"
        /\ statPc' = "switch"
               => connectionWarnings /\ m_MouseEmulationRefCount[Observed] = 0
        /\ statPc = "switch" /\ statStatus = "CONN_STATUS_POOR"
               => /\ overlayText'[Observed] = StatusText
                  /\ statPc' = "state"
                  /\ UNCHANGED overlayEnabled
        /\ statPc = "switch" /\ statStatus = "CONN_STATUS_OKAY"
               => /\ ~overlayEnabled'[Observed]
                  /\ statPc' = "idle"
                  /\ UNCHANGED overlayText
        /\ statPc = "state"
               => /\ overlayEnabled'[Observed]
                  /\ statPc' = "idle"
                  /\ UNCHANGED overlayText]_vars

\* a poor-connection update at a bitrate above the limit has returned: the
\* overlay is visible with the reduce-bitrate text, no gamepad in mouse mode
C28_Witness ==
    /\ statPc = "idle"
    /\ connectionWarnings /\ bitrateKbps > 5000
    /\ m_MouseEmulationRefCount[Observed] = 0
    /\ overlayEnabled[Observed]
    /\ overlayText[Observed] = SlowConnectionText

\* C29: whenever the mouse-emulation count of the session is positive its
\* status overlay is visible and shows the mouse-mode notice, whatever
\* connection status updates run beside notifyMouseEmulationMode; the count
\* is never negative.
C29_MouseNoticeNeverOverwritten ==
    /\ m_MouseEmulationRefCount[Observed] >= 0
    /\ m_MouseEmulationRefCount[Observed] > 0
           => /\ overlayEnabled[Observed]
              /\ overlayText[Observed] = MouseModeText

(* ----------------------------- video setup ------------------------------ *)
\* a decoder object comes into being
DecoderCreated == ~(liveDecoders' \subseteq liveDecoders)
\* the descriptor fields of the session are written
DescriptorWritten == m_ActiveVideo'[Observed] # m_ActiveVideo[Observed]
\* exec() is in its event loop, the decoder swap included
InEventLoop == pc[Observed] \in {"loop", "swap_lock", "swap_delete", "swap_flush",
                                 "swap_choose", "swap_idr", "swap_unlock"}

C31_FrameReadyNeedsLiveDecoder == "renderFrameOnMainThread" \notin fault

(* ------------------------- window events in the loop -------------------- *)
\* the loop of the observed session takes the event at the head of the queue
Dispatches(e) ==
    /\ pc[Observed] = "loop"
    /\ events # <<>> /\ Head(events) = e
    /\ hist'.event = e /\ events' = Tail(events)
\* the step enters the decoder swap
StartsSwap == pc'[Observed] = "swap_lock"
\* the step stays in the loop, swapping nothing
NoSwap == pc'[Observed] = "loop" /\ UNCHANGED decVars
\* the window is on another display than the one the loop recorded
DisplayChanged == windowDisplay # currentDisplayIndex
\* the window is windowed: neither full-screen flag is set
Windowed == windowFlags = 0

\* C32: a window event starts a decoder swap exactly when it is a
\* size-changed or shown event or the window is on another display than the
\* recorded one, and otherwise leaves the decoder alone; a device-reset or
\* render-targets-reset event always starts a swap; a focus-lost event
\* always raises all keys, and deactivates capture exactly when the window
\* is not full-screen.
C32_WindowEventDispatch ==
    /\ [][\A e \in WindowEvents : Dispatches(e) =>
              IF e \in {"WINDOW_SIZE_CHANGED", "WINDOW_SHOWN"} \/ DisplayChanged
              THEN StartsSwap ELSE NoSwap]_vars
    /\ [][\A e \in ResetEvents : Dispatches(e) => StartsSwap]_vars
    /\ [][Dispatches("WINDOW_FOCUS_LOST") =>
              /\ ~keysPressed'[Observed]
              /\ captureActive'[Observed] = (captureActive[Observed] /\ ~Windowed)]_vars
    /\ [](windowFlags \in {0, SDL_WINDOW_FULLSCREEN, SDL_WINDOW_FULLSCREEN_DESKTOP})

\* focus was lost in desktop full screen with keys down: the keys are raised,
\* capture is kept, and the window, dragged to the other display, is
\* getting a new decoder
C32_Witness ==
    /\ hist.event = "WINDOW_FOCUS_LOST"
    /\ windowFlags = SDL_WINDOW_FULLSCREEN_DESKTOP
    /\ captureActive[Observed] /\ ~keysPressed[Observed]
    /\ DisplayChanged
    /\ pc[Observed] = "swap_lock"

(* ------------------------ V-sync and frame pacing ----------------------- *)
\* the display is more than 5 Hz short of the stream's frame rate
DisplayTooSlow == displayHz + 5 < m_StreamConfig[Observed].fps

\* C33: a decoder created by the swap was chosen with V-sync and frame
\* pacing both off if the display refresh rate plus 5 is below the stream's
\* frame rate, and otherwise with V-sync as preferred and frame pacing on
\* exactly when both preferences are on; frame pacing is never on without
\* V-sync.
C33_SwapVsyncAndPacing ==
    hist.decoder =>
        /\ IF DisplayTooSlow
           THEN hist.enableVsync = FALSE /\ hist.enableFramePacing = FALSE
           ELSE /\ hist.enableVsync = m_Preferences.enableVsync
                /\ hist.enableFramePacing = (m_Preferences.enableVsync /\ framePacing)
        /\ hist.enableFramePacing = TRUE => hist.enableVsync = TRUE

\* a 60 frames a second stream on a 54 Hz display with both preferences on
\* has a decoder running without V-sync and frame pacing
C33_Witness ==
    /\ displayHz = 54 /\ m_StreamConfig[Observed].fps = 60
    /\ m_Preferences.enableVsync /\ framePacing
    /\ hist.decoder /\ m_VideoDecoder[Observed] \in liveDecoders
    /\ hist.enableVsync = FALSE /\ hist.enableFramePacing = FALSE
    /\ pc[Observed] = "loop"

(* ------------------------------ HEVC and HDR ---------------------------- *)
\* the codec preference forces HEVC
HevcForced == m_Preferences.videoCodecConfig \in {"VCC_FORCE_HEVC", "VCC_FORCE_HEVC_HDR"}
\* this PC decodes HEVC in hardware at the size asked for
HevcProbe == <<"VIDEO_FORMAT_H265", m_Preferences.width>> \in hwDecode
\* validateLaunch emitted the warning
Warned(text) == \E i \in DOMAIN warnings[Observed] : warnings[Observed][i] = text
\* the HEVC check, entered with supportsHevc set whatever initialize() found
HevcCheckOnSet ==
    validateLaunch_hevc([config |-> [initialize_config EXCEPT !.supportsHevc = TRUE],
                         warnings |-> <<>>, errors |-> <<>>,
                         audioDisabled |-> FALSE, ret |-> TRUE])

\* C34: the HEVC check, entered with supportsHevc set while this PC has no
\* hardware HEVC decoding and the decoder selection is automatic, warns and
\* clears supportsHevc unless HEVC was forced, and then warns of software
\* decoding and leaves it set; with HEVC forced and a host whose
\* maxLumaPixelsHEVC is 0 supportsHevc ends cleared; under the automatic codec
\* mode supportsHevc ends true only if the hardware HEVC probe succeeded.
C34_HevcValidation ==
    /\ ~HevcProbe /\ m_Preferences.videoDecoderSelection = "VDS_AUTO" =>
          IF HevcForced
          THEN /\ HevcCheckOnSet.warnings[1] = "software decoding due to forced HEVC"
               /\ HevcCheckOnSet.config.supportsHevc = (m_Computer.maxLumaPixelsHEVC # 0)
          ELSE /\ HevcCheckOnSet.warnings = <<"PC GPU doesn't support HEVC">>
               /\ ~HevcCheckOnSet.config.supportsHevc
    /\ Validated =>
          /\ HevcForced /\ ~HevcProbe /\ m_Preferences.videoDecoderSelection = "VDS_AUTO" =>
                /\ Warned("software decoding due to forced HEVC")
                /\ ~Warned("PC GPU doesn't support HEVC")
                /\ m_StreamConfig[Observed].supportsHevc = (m_Computer.maxLumaPixelsHEVC # 0)
          /\ HevcForced /\ m_Computer.maxLumaPixelsHEVC = 0 =>
                /\ ~m_StreamConfig[Observed].supportsHevc
                /\ Warned("host GPU doesn't support HEVC")
          /\ m_Preferences.videoCodecConfig = "VCC_AUTO" =>
                (m_StreamConfig[Observed].supportsHevc => HevcProbe)

\* HEVC was forced on a PC without hardware HEVC decoding, with automatic
\* decoder selection and a host that encodes HEVC: the launch is validated
\* with the software decoding warning and supportsHevc still set
C34_Witness ==
    /\ Validated /\ pc[Observed] = "wait"
    /\ HevcForced /\ ~HevcProbe /\ m_Preferences.videoDecoderSelection = "VDS_AUTO"
    /\ m_Computer.maxLumaPixelsHEVC # 0
    /\ Warned("software decoding due to forced HEVC")
    /\ m_StreamConfig[Observed].supportsHevc

\* C35: in the stream configuration that initialize() and validateLaunch()
\* leave, enableHdr is true only if supportsHevc is true.
C35_HdrImpliesHevc ==
    Validated =>
        (m_StreamConfig[Observed].enableHdr => m_StreamConfig[Observed].supportsHevc)
====
